---------------------------- MODULE Spec2Model ----------------------------
(***************************************************************************)
(* Data layout and relocation core of the linker (src/cmd/ld/data.c).      *)
(*                                                                         *)
(* The symbol pool is the function syms (index = position in allsym), the  *)
(* intrusive lists textp and datap are sequences of symbol indices, and    *)
(* the two segments are sequences of section records.  Each linker phase   *)
(* (dosymtype, textaddress, dodata, address, reloc) is one action; the     *)
(* byte encoders are operators on symbol records, used both by the phases  *)
(* and, as actions of their own, by the encoder specification.             *)
(***************************************************************************)
EXTENDS Integers, Sequences, FiniteSets, TLC

VARIABLES
    syms,        \* allsym: symbol index -> Sym record
    textp,       \* text list (symbol indices, front-end order)
    datap,       \* data list (symbol indices)
    segtext,     \* sections of the text segment, in addsection order
    segdata,     \* sections of the data segment, in addsection order
    pc,          \* linker phase reached
    thechar,     \* architecture tag: "6" (amd64) or "8" (386)
    flag_shared, \* shared-library mode
    HEADTYPE,    \* "Hlinux" or "Hwindows"
    isobj,       \* emitting an object file instead of an executable
    debug_d,     \* debug['d']: dynamic loader format suppressed
    hostBE,      \* byte order of the machine the linker runs on
    dynlog,      \* calls made to adddynrel / adddynrela, in order
    diags,       \* diagnostics reported through diag()
    fault,       \* the process was killed by a store outside an allocated buffer
    hist,        \* arguments and pre-state of the last encoder call / phase snapshot
    sigframe     \* a signal delivered to the runtime: sighandler's arguments, the
                 \* interrupted context and its stack, the G's signal fields

vars == <<syms, textp, datap, segtext, segdata, pc, thechar, flag_shared,
          HEADTYPE, isobj, debug_d, hostBE, dynlog, diags, fault, hist, sigframe>>

-----------------------------------------------------------------------------
(* Symbol kinds (enum in ld/lib.h); the order is the order in the output.  *)
STEXT == 1
STYPE == 3
SGOSTRING == 5
SRODATA == 6
STYPELINK == 7
SGCDATA == 8
SGCBSS == 9
SSYMTAB == 10
SPCLNTAB == 11
SELFROSECT == 12
SELFSECT == 13
SNOPTRDATA == 14
SDATARELRO == 15
SDATA == 16
SBSS == 20
SNOPTRBSS == 21
SXREF == 23
SCONST == 29
SDYNIMPORT == 30
SSUB == 256
SMASK == 255

(* Relocation types below 256 known to the core (6.out.h / 8.out.h).       *)
D_CONST == 72
D_FCONST == 73
D_SCONST == 74
D_ADDR == 75
D_SIZE == 136
D_PCREL == 137

(* Garbage collector opcodes (pkg/runtime/mgc0.h).                         *)
GC_END == 0
GC_APTR == 2
GC_CALL == 5

(* Link parameters (set by the architecture's obj.c from HEADTYPE).        *)
INITTEXT == 4096
INITRND == 4096
FuncAlign == 16

PtrSize == IF thechar = "6" THEN 8 ELSE 4

-----------------------------------------------------------------------------
(* Arithmetic helpers.                                                     *)

\* lib.c rnd: round v up to a multiple of r; r <= 0 leaves v alone.
rnd(v, r) ==
    IF r <= 0 THEN v
    ELSE LET w == v + r - 1
             c0 == w % r
         IN  w - c0

Pow256(k) == IF k = 0 THEN 1 ELSE IF k = 1 THEN 256 ELSE IF k = 2 THEN 65536 ELSE 16777216

\* Byte k (0 = least significant) of the 64-bit two's complement form of v.
Byte(v, k) ==
    IF v >= 0
    THEN (IF k > 3 THEN 0 ELSE ((v \div Pow256(k)) % 256))
    ELSE (IF k > 3 THEN 255 ELSE 255 - ((((0 - v) - 1) \div Pow256(k)) % 256))

\* cast[j] for cast = (uchar*)&x, x an n-byte integer holding v (truncated).
CastByte(v, j, n) == IF hostBE THEN Byte(v, n - 1 - j) ELSE Byte(v, j)

\* lib.c nuxiinit: position in host memory of each target byte.
inuxi1(i) == IF hostBE THEN 3 ELSE 0
inuxi2(i) == IF hostBE THEN 3 - i ELSE i
inuxi4(i) == IF hostBE THEN 3 - i ELSE i
inuxi8(i) == IF hostBE THEN 7 - i ELSE i

inuxi(wid, i) ==
    CASE wid = 1 -> inuxi1(i)
      [] wid = 2 -> inuxi2(i)
      [] wid = 4 -> inuxi4(i)
      [] OTHER   -> inuxi8(i)

\* Width of the C object the bytes are taken from: int32 fl, or vlong o.
CastWidth(wid) == IF wid = 8 THEN 8 ELSE 4

-----------------------------------------------------------------------------
(* Names are strings of character codes, compared as strcmp does.          *)

RECURSIVE strcmp(_, _)
strcmp(a, b) ==
    IF a = <<>> /\ b = <<>> THEN 0
    ELSE IF a = <<>> THEN 0 - b[1]
    ELSE IF b = <<>> THEN a[1]
    ELSE IF a[1] # b[1] THEN a[1] - b[1]
    ELSE strcmp(Tail(a), Tail(b))

Name_gcdata1 == <<103, 99, 100, 97, 116, 97, 49>>
Name_gcbss1 == <<103, 99, 98, 115, 115, 49>>
Name_string == <<46, 115, 116, 114, 105, 110, 103>>
Name_rel == <<46, 114, 101, 108>>
Name_rela == <<46, 114, 101, 108, 97>>
Name_got == <<46, 103, 111, 116>>
Name_text == <<46, 116, 101, 120, 116>>
Name_noptrdata == <<46, 110, 111, 112, 116, 114, 100, 97, 116, 97>>
Name_datarelro == <<46, 100, 97, 116, 97, 46, 114, 101, 108, 46, 114, 111>>
Name_data == <<46, 100, 97, 116, 97>>
Name_bss == <<46, 98, 115, 115>>
Name_noptrbss == <<46, 110, 111, 112, 116, 114, 98, 115, 115>>
Name_rodata == <<46, 114, 111, 100, 97, 116, 97>>
Name_typelink == <<46, 116, 121, 112, 101, 108, 105, 110, 107>>
Name_gcdata == <<46, 103, 99, 100, 97, 116, 97>>
Name_gcbss == <<46, 103, 99, 98, 115, 115>>
Name_gosymtab == <<46, 103, 111, 115, 121, 109, 116, 97, 98>>
Name_gopclntab == <<46, 103, 111, 112, 99, 108, 110, 116, 97, 98>>

-----------------------------------------------------------------------------
(* Sym and Reloc records.                                                  *)

NewSym(name) ==
    [name |-> name, type |-> 0, size |-> 0, np |-> 0, maxp |-> 0, p |-> <<>>,
     r |-> <<>>, align |-> 0, value |-> 0, sect |-> <<>>, reachable |-> FALSE,
     special |-> FALSE, rel_ro |-> FALSE, gotype |-> 0, plt |-> -1, got |-> -1,
     dynimpname |-> FALSE, dynexport |-> FALSE, text |-> FALSE, sub |-> 0,
     outer |-> 0, oob |-> FALSE]

NewReloc(off, siz, type, sym, add) ==
    [off |-> off, siz |-> siz, type |-> type, sym |-> sym, add |-> add]

Zeros(n) == [i \in 1..n |-> 0]

\* The element of a set of one element.
Only(S) == CHOOSE x \in S : TRUE

-----------------------------------------------------------------------------
(* Sorting of the data list.                                               *)

\* Mutant of datcmp: the size comparison is left out.
datcmp_nosize(s1, s2) ==
    IF s1.type # s2.type THEN s1.type - s2.type
    ELSE strcmp(s1.name, s2.name)

datcmp(s1, s2) ==
    IF s1.type # s2.type THEN s1.type - s2.type
    ELSE IF s1.size # s2.size THEN (IF s1.size < s2.size THEN -1 ELSE 1)
    ELSE strcmp(s1.name, s2.name)

(* The list is intrusive: nx[i] is Sym i's next pointer, 0 is nil.         *)

\* The list a sequence of symbol indices stands for, over n symbols.
LinkOf(n, l) ==
    [i \in 1..n |->
        IF \E k \in 1..(Len(l) - 1) : l[k] = i
        THEN l[(CHOOSE k \in 1..(Len(l) - 1) : l[k] = i) + 1]
        ELSE 0]

HeadOf(l) == IF l = <<>> THEN 0 ELSE l[1]

\* The symbols met from head following nx, at most fuel of them.
RECURSIVE ListOf(_, _, _)
ListOf(nx, head, fuel) ==
    IF head = 0 \/ fuel = 0 THEN <<>>
    ELSE <<head>> \o ListOf(nx, nx[head], fuel - 1)

\* datsort's first loop: l2 runs two steps for each step of l1.
RECURSIVE datsort_mid(_, _, _)
datsort_mid(nx, l1, l2) ==
    LET a == nx[l2] IN
    IF a = 0 THEN l1
    ELSE LET b == nx[a] IN
         IF b = 0 THEN l1 ELSE datsort_mid(nx, nx[l1], b)

\* while(l) { le->next = l; le = l; l = l->next; }  le->next = 0;
RECURSIVE datsort_drain(_, _, _)
datsort_drain(nx, le, l) ==
    IF l = 0 THEN [nx EXCEPT ![le] = 0]
    ELSE datsort_drain([nx EXCEPT ![le] = l], l, nx[l])

\* datsort's merge loop.
RECURSIVE datsort_merge(_, _, _, _, _)
datsort_merge(S, nx, l1, l2, le) ==
    IF l1 = 0 THEN datsort_drain(nx, le, l2)
    ELSE IF l2 = 0 THEN datsort_drain(nx, le, l1)
    ELSE IF datcmp(S[l1], S[l2]) < 0
         THEN datsort_merge(S, [nx EXCEPT ![le] = l1], nx[l1], l2, l1)
         ELSE datsort_merge(S, [nx EXCEPT ![le] = l2], l1, nx[l2], l2)

\* datsort(l), with the list's links in nx: the new head and the new links.
RECURSIVE datsort(_, _, _)
datsort(S, nx, l) ==
    IF l = 0 \/ nx[l] = 0 THEN [l |-> l, nx |-> nx]
    ELSE LET m  == datsort_mid(nx, l, l)
             h2 == nx[m]
             r1 == datsort(S, [nx EXCEPT ![m] = 0], l)
             r2 == datsort(S, r1.nx, h2)
             n2 == r2.nx
         IN  IF datcmp(S[r1.l], S[r2.l]) < 0
             THEN [l |-> r1.l, nx |-> datsort_merge(S, n2, n2[r1.l], r2.l, r1.l)]
             ELSE [l |-> r2.l, nx |-> datsort_merge(S, n2, r1.l, n2[r2.l], r2.l)]

\* datap = datsort(datap), for datap given and returned as a sequence.
datsort_list(S, l) ==
    LET res == datsort(S, LinkOf(Len(S), l), HeadOf(l))
    IN  ListOf(res.nx, res.l, Len(S) + 1)

-----------------------------------------------------------------------------
(* Payload buffer.  p has maxp bytes (the allocation); the payload is its  *)
(* first np bytes.  A store at an index inside the allocation lands there  *)
(* even when it is past np; a store outside the allocation is undefined    *)
(* behaviour: it is recorded in oob and does not reach p.                  *)

StoreBytes(s, off, bytes) ==
    [s EXCEPT
       !.p = [i \in 1..s.maxp |->
                 IF i - 1 >= off /\ i - 1 < off + Len(bytes)
                 THEN bytes[i - off] ELSE s.p[i]],
       !.oob = s.oob \/ (Len(bytes) > 0 /\ (off < 0 \/ off + Len(bytes) > s.maxp))]

\* The payload proper: s->p[0 .. np).
Payload(s) == SubSeq(s.p, 1, s.np)

\* The bytes of s->p[off .. off+n), as far as they are inside the payload.
Slot(s, off, n) == [i \in 1..n |-> IF off + i <= s.np /\ off + i >= 1 THEN s.p[off + i] ELSE -1]

RECURSIVE growcap(_, _)
growcap(maxp, siz) == IF maxp < siz THEN growcap(maxp * 2, siz) ELSE maxp

symgrow(s, siz) ==
    IF s.np >= siz THEN s
    ELSE IF s.maxp < siz
         THEN LET m == growcap(IF s.maxp = 0 THEN 8 ELSE s.maxp, siz)
              IN  [s EXCEPT !.maxp = m,
                            !.p = [i \in 1..m |-> IF i <= s.np THEN s.p[i] ELSE 0],
                            !.np = siz]
         ELSE [s EXCEPT !.np = siz]

addrel(s, rel) == [s EXCEPT !.r = Append(s.r, rel)]

\* The bytes setuintxx / savedata / relocsym take out of fl or o.
IntBytes(v, wid) ==
    [i \in 1..wid |-> CastByte(v, inuxi(wid, i - 1), CastWidth(wid))]

\* if(s->type == 0) s->type = <kind>; s->reachable = 1;
touch(s, kind) ==
    [s EXCEPT !.type = IF s.type = 0 THEN kind ELSE s.type, !.reachable = TRUE]

setuintxx(s, off, v, wid) ==
    LET s1 == touch(s, SDATA)
        s2 == IF s1.size < off + wid
              THEN symgrow([s1 EXCEPT !.size = off + wid], off + wid)
              ELSE s1
    IN  IF wid \in {1, 2, 4, 8} THEN StoreBytes(s2, off, IntBytes(v, wid)) ELSE s2

adduintxx(s, v, wid) == setuintxx(s, s.size, v, wid)

adduint8(s, v) == adduintxx(s, v, 1)

adduint32(s, v) == adduintxx(s, v, 4)

\* The shape shared by addaddrplus, addaddrplus4, addpcrelplus and addsize.
appendslot(s, t, add, siz, type) ==
    LET s1 == touch(s, SDATA)
        i  == s1.size
        s2 == symgrow([s1 EXCEPT !.size = i + siz], i + siz)
    IN  addrel(s2, NewReloc(i, siz, type, t, add))

addaddrplus(s, t, add) == appendslot(s, t, add, PtrSize, D_ADDR)

addaddrplus4(s, t, add) == appendslot(s, t, add, 4, D_ADDR)

addpcrelplus(s, t, add) == appendslot(s, t, add, 4, D_PCREL)

addaddr(s, t) == addaddrplus(s, t, 0)

addsize(s, t) == appendslot(s, t, 0, PtrSize, D_SIZE)

\* Mutant of setaddrplus: the slot is recorded without growing the symbol.
setaddrplus_nogrow(s, off, t, add) ==
    addrel(touch(s, SDATA), NewReloc(off, PtrSize, D_ADDR, t, add))

setaddrplus(s, off, t, add) ==
    LET s1 == touch(s, SDATA)
        s2 == IF off + PtrSize > s1.size
              THEN symgrow([s1 EXCEPT !.size = off + PtrSize], off + PtrSize)
              ELSE s1
    IN  addrel(s2, NewReloc(off, PtrSize, D_ADDR, t, add))

setaddr(s, off, t) == setaddrplus(s, off, t, 0)

\* str is the C string without its terminating NUL; n = strlen(str)+1.
addstring(s, str) ==
    LET s1 == [s EXCEPT !.type = IF s.type = 0 THEN SNOPTRDATA ELSE s.type,
                        !.reachable = TRUE]
        r0 == s1.size
        n  == Len(str) + 1
        s2 == StoreBytes(symgrow(s1, r0 + n), r0, Append(str, 0))
    IN  [s2 EXCEPT !.size = r0 + n]

(* savedata(s, p, pn).  prog carries p->from.offset (off), p->datasize      *)
(* (siz), p->to.type (totype), p->to.sym (tosym), p->to.offset (tooff),     *)
(* p->to.scon (scon) and the float as the two words of p->to.ieee (l, h)    *)
(* with f32 = ieeedtof(&p->to.ieee).                                        *)
mangled(prog) ==
    prog.off < 0 \/ prog.siz < 0 \/ prog.off >= 1073741824 \/ prog.siz >= 100

savedata_Addr(s1, prog) ==
    addrel(s1, NewReloc(prog.off, prog.siz,
                        IF prog.totype # D_SIZE THEN D_ADDR ELSE D_SIZE,
                        prog.tosym, prog.tooff))

savedata(s, prog) ==
    LET s1 == symgrow(s, prog.off + prog.siz) IN
    CASE prog.totype = D_FCONST ->
           IF prog.siz = 8
           THEN StoreBytes(s1, prog.off,
                    [i \in 1..8 |-> IF i <= 4 THEN CastByte(prog.l, inuxi4(i - 1), 4)
                                              ELSE CastByte(prog.h, inuxi4(i - 5), 4)])
           ELSE StoreBytes(s1, prog.off, IntBytes(prog.f32, 4))
      [] prog.totype = D_SCONST ->
           StoreBytes(s1, prog.off, [i \in 1..prog.siz |-> prog.scon[i]])
      [] prog.totype = D_CONST ->
           IF prog.tosym # 0 THEN savedata_Addr(s1, prog)
           ELSE IF prog.siz \in {1, 2, 4, 8}
                THEN StoreBytes(s1, prog.off, IntBytes(prog.tooff, prog.siz))
                ELSE s1
      [] prog.totype \in {D_ADDR, D_SIZE} -> savedata_Addr(s1, prog)
      [] OTHER -> s1

\* The diagnostics savedata reports for prog.
savedata_diag(prog) ==
    IF prog.totype \notin {D_FCONST, D_SCONST, D_CONST, D_ADDR, D_SIZE}
    THEN {"bad data"}
    ELSE IF prog.totype = D_CONST /\ prog.tosym = 0 /\ prog.siz \notin {1, 2, 4, 8}
         THEN {"bad nuxi"}
         ELSE {}

-----------------------------------------------------------------------------
(* Symbol table.  allsym is threaded newest first: lookup puts a symbol it  *)
(* creates at the head of the list.                                         *)

AllsymOrder(S) == [k \in 1..Len(S) |-> Len(S) + 1 - k]

HasName(S, name) == \E i \in 1..Len(S) : S[i].name = name

\* lookup(name, 0): the symbol's index and the table, grown if it was absent.
lookup(S, name) ==
    IF HasName(S, name)
    THEN [S |-> S, id |-> CHOOSE i \in 1..Len(S) : S[i].name = name]
    ELSE [S |-> Append(S, NewSym(name)), id |-> Len(S) + 1]

lookuprel(S) == lookup(S, IF thechar = "6" THEN Name_rela ELSE Name_rel)

symaddr(S, id) == S[id].value

\* decodetype_gc(gotype): the symbol the type's GC program slot refers to.
decodetype_gc(S, gotype) ==
    IF Len(S[gotype].r) > 0 THEN S[gotype].r[1].sym ELSE 0

-----------------------------------------------------------------------------
(* Dynamic relocation preprocessing.  st carries the symbol table S, the    *)
(* log of adddynrel/adddynrela calls and ub (a nil symbol was dereferenced).*)

R_RELATIVE == 8

\* adddynrela(rel, s, r): one RELATIVE record appended to rel.
adddynrela(st, rel, s, k) ==
    LET r  == st.S[s].r[k]
        r1 == addaddrplus(st.S[rel], s, r.off)
        r2 == adduintxx(r1, R_RELATIVE, PtrSize)
        r3 == IF thechar = "6" THEN addaddrplus(r2, r.sym, r.add) ELSE r2
    IN  [st EXCEPT !.S = [st.S EXCEPT ![rel] = r3],
                   !.log = Append(st.log, [fn |-> "adddynrela", s |-> s, k |-> k])]

\* adddynrel(s, r): handed to the architecture; only the call is recorded.
adddynrel(st, s, k) ==
    [st EXCEPT !.log = Append(st.log, [fn |-> "adddynrel", s |-> s, k |-> k])]

\* The PE stub appended to rel for targ: jmp *addr.
pe_stub(S, rel, targ) ==
    IF thechar = "8"
    THEN LET a == adduint8(adduint8(S[rel], 255), 37)
             b == addaddr(a, targ)
         IN  adduint8(adduint8(b, 144), 144)
    ELSE LET a == adduint8(adduint8(adduint8(S[rel], 255), 36), 37)
             b == addaddrplus4(a, targ, 0)
         IN  adduint8(b, 144)

\* Mutant of dynrelocsym_pe1: a stub is made for every reference, also when
\* the target has one.
dynrelocsym_pe1_restub(st, s, k, rel) ==
    LET S == st.S
        targ == S[s].r[k].sym
    IN  IF targ = 0 THEN [st EXCEPT !.ub = TRUE]
        ELSE IF (S[targ].plt = -2 \/ S[targ].plt >= 0) /\ S[targ].got # -2
        THEN LET plt == S[rel].size
                 S1 == [S EXCEPT ![targ].plt = plt]
                 S2 == [S1 EXCEPT ![s].r[k].sym = rel, ![s].r[k].add = plt]
                 S3 == [S2 EXCEPT ![rel] = pe_stub(S2, rel, targ)]
             IN  [st EXCEPT !.S = S3]
        ELSE st

\* One relocation of s on the Windows path.
dynrelocsym_pe1(st, s, k, rel) ==
    LET S == st.S
        targ == S[s].r[k].sym
    IN  IF targ = 0 THEN [st EXCEPT !.ub = TRUE]
        ELSE IF S[targ].plt = -2 /\ S[targ].got # -2
        THEN LET plt == S[rel].size
                 S1 == [S EXCEPT ![targ].plt = plt]
                 S2 == [S1 EXCEPT ![s].r[k].sym = rel, ![s].r[k].add = plt]
                 S3 == [S2 EXCEPT ![rel] = pe_stub(S2, rel, targ)]
             IN  [st EXCEPT !.S = S3]
        ELSE IF S[targ].plt >= 0
        THEN [st EXCEPT !.S = [S EXCEPT ![s].r[k].sym = rel,
                                        ![s].r[k].add = S[targ].plt]]
        ELSE st

\* Mutant of dynrelocsym_elf1: the shared-mode branch is left out.
dynrelocsym_elf1_noshared(st, s, k, rel, got) ==
    LET r == st.S[s].r[k] IN
    IF (r.sym # 0 /\ st.S[r.sym].type = SDYNIMPORT) \/ r.type >= 256
    THEN adddynrel(st, s, k) ELSE st

\* One relocation of s on the ELF path; rel and got are 0 unless flag_shared.
dynrelocsym_elf1(st, s, k, rel, got) ==
    LET r   == st.S[s].r[k]
        st1 == IF (r.sym # 0 /\ st.S[r.sym].type = SDYNIMPORT) \/ r.type >= 256
               THEN adddynrel(st, s, k) ELSE st
        r1  == st1.S[s].r[k]
        sy  == st1.S[s]
    IN  IF /\ flag_shared /\ r1.sym # 0
           /\ (~st1.S[r1.sym].dynimpname \/ st1.S[r1.sym].dynexport)
           /\ r1.type = D_ADDR
           /\ (s = got \/ sy.type = SDATA \/ sy.type = SGOSTRING
                 \/ sy.type = STYPE \/ sy.type = SRODATA)
        THEN LET st2 == adddynrela(st1, rel, s, k)
             IN  IF st2.S[s].type < SNOPTRDATA
                 THEN [st2 EXCEPT !.S = [st2.S EXCEPT ![s].rel_ro = TRUE]]
                 ELSE st2
        ELSE st1

RECURSIVE dynrelocsym_loop(_, _, _, _, _)
dynrelocsym_loop(st, s, k, rel, got) ==
    IF k > Len(st.S[s].r) THEN st
    ELSE dynrelocsym_loop(
            IF HEADTYPE = "Hwindows" THEN dynrelocsym_pe1(st, s, k, rel)
            ELSE dynrelocsym_elf1(st, s, k, rel, got),
            s, k + 1, rel, got)

dynrelocsym(st, s) ==
    IF HEADTYPE = "Hwindows"
    THEN LET lk == lookup(st.S, Name_rel)
         IN  IF s = lk.id THEN [st EXCEPT !.S = lk.S]
             ELSE dynrelocsym_loop([st EXCEPT !.S = lk.S], s, 1, lk.id, 0)
    ELSE IF flag_shared
         THEN LET lr == lookuprel(st.S)
                  lg == lookup(lr.S, Name_got)
                  S1 == [lg.S EXCEPT ![s].rel_ro = FALSE]
              IN  dynrelocsym_loop([st EXCEPT !.S = S1], s, 1, lr.id, lg.id)
         ELSE dynrelocsym_loop([st EXCEPT !.S = [st.S EXCEPT ![s].rel_ro = FALSE]],
                               s, 1, 0, 0)

RECURSIVE dynreloc_list(_, _, _)
dynreloc_list(st, l, k) ==
    IF k > Len(l) THEN st ELSE dynreloc_list(dynrelocsym(st, l[k]), l, k + 1)

\* dynreloc(), applied to the text list tp and the data list dp.
dynreloc(st, tp, dp) ==
    IF debug_d /\ HEADTYPE # "Hwindows" THEN st
    ELSE dynreloc_list(dynreloc_list(st, tp, 1), dp, 1)

-----------------------------------------------------------------------------
(* Layout helpers.                                                          *)

\* Mutant of alignsymsize: the size is rounded down, not up.
alignsymsize_down(sz) == IF sz >= 8 THEN sz - (sz % 8) ELSE sz - (sz % 4)

alignsymsize(sz) ==
    IF sz >= 8 THEN rnd(sz, 8)
    ELSE IF sz >= PtrSize THEN rnd(sz, PtrSize)
    ELSE IF sz > 2 THEN rnd(sz, 4)
    ELSE sz

aligndatsize(datsize, s) ==
    IF s.align # 0 THEN rnd(datsize, s.align)
    ELSE LET t == alignsymsize(s.size) IN
         IF t % 2 = 1 THEN datsize
         ELSE IF (t \div 2) % 2 = 1 THEN rnd(datsize, 2)
         ELSE IF (t \div 4) % 2 = 1 THEN rnd(datsize, 4)
         ELSE rnd(datsize, 8)

\* Mutant of gcaddsym_aptr: the records hold a, not the section offset off+a.
RECURSIVE gcaddsym_aptr_nooff(_, _, _, _)
gcaddsym_aptr_nooff(gc, s, off, a) ==
    IF a + PtrSize <= s.size
    THEN gcaddsym_aptr_nooff(adduintxx(adduintxx(gc, GC_APTR, PtrSize), a, PtrSize),
                             s, off, a + PtrSize)
    ELSE gc

\* The GC_APTR records of gcaddsym's loop, a being the loop variable.
RECURSIVE gcaddsym_aptr(_, _, _, _)
gcaddsym_aptr(gc, s, off, a) ==
    IF a + PtrSize <= s.size
    THEN gcaddsym_aptr(adduintxx(adduintxx(gc, GC_APTR, PtrSize), off + a, PtrSize),
                       s, off, a + PtrSize)
    ELSE gc

\* gcaddsym(gc, s, off): the gc symbol after the call.
gcaddsym(S, gc, s, off) ==
    IF s.size < PtrSize THEN gc
    ELSE IF strcmp(s.name, Name_string) = 0 THEN gc
    ELSE IF s.gotype # 0
    THEN LET g1 == adduintxx(gc, GC_CALL, PtrSize)
             g2 == adduintxx(g1, off, PtrSize)
             g3 == addpcrelplus(g2, decodetype_gc(S, s.gotype), 3 * PtrSize + 4)
         IN  IF PtrSize = 8 THEN adduintxx(g3, 0, 4) ELSE g3
    ELSE gcaddsym_aptr(gc, s, off, (0 - off) % PtrSize)


-----------------------------------------------------------------------------
(* dodata.  Its local state is the record st: the symbol table S, textp    *)
(* (tp), the list dp and the cursor i into it (s = dp[i]; i past the end   *)
(* is s == nil), datsize, the sections sects of the segment being laid     *)
(* out, segtext as dodata found it and segdata once it is laid out, the    *)
(* diagnostics, the dynamic relocation log and ub, and the indices of      *)
(* gcdata1 and gcbss1.                                                     *)

NewSection(name, rwx, vaddr) == [name |-> name, rwx |-> rwx, vaddr |-> vaddr, len |-> 0]

\* Mutant of dodata_cond: the .bss loop stops at SBSS instead of SNOPTRBSS.
dodata_cond_bss(kind, ty) ==
    CASE kind = "skip"      -> ty < SELFSECT
      [] kind = "elfw"      -> ty < SNOPTRDATA
      [] kind = "noptrdata" -> ty < SDATARELRO
      [] kind = "datarelro" -> ty = SDATARELRO
      [] kind = "data"      -> ty < SBSS
      [] kind = "bss"       -> ty < SBSS
      [] kind = "noptrbss"  -> TRUE
      [] kind = "rodata"    -> ty < STYPELINK
      [] kind = "typelink"  -> ty = STYPELINK
      [] kind = "gcdata"    -> ty = SGCDATA
      [] kind = "gcbss"     -> ty = SGCBSS
      [] kind = "gosymtab"  -> ty < SPCLNTAB
      [] kind = "gopclntab" -> ty < SELFROSECT
      [] OTHER              -> ty < SELFSECT

\* The condition of each for loop of dodata on s->type.
dodata_cond(kind, ty) ==
    CASE kind = "skip"      -> ty < SELFSECT
      [] kind = "elfw"      -> ty < SNOPTRDATA
      [] kind = "noptrdata" -> ty < SDATARELRO
      [] kind = "datarelro" -> ty = SDATARELRO
      [] kind = "data"      -> ty < SBSS
      [] kind = "bss"       -> ty < SNOPTRBSS
      [] kind = "noptrbss"  -> TRUE
      [] kind = "rodata"    -> ty < STYPELINK
      [] kind = "typelink"  -> ty = STYPELINK
      [] kind = "gcdata"    -> ty = SGCDATA
      [] kind = "gcbss"     -> ty = SGCBSS
      [] kind = "gosymtab"  -> ty < SPCLNTAB
      [] kind = "gopclntab" -> ty < SELFROSECT
      [] OTHER              -> ty < SELFSECT

\* The body of each for loop of dodata, for s = dp[i]; seg names the segment.
dodata_place(st, kind, seg) ==
    LET id == st.dp[st.i]
        s  == st.S[id]
        al == IF s.align # 0 THEN rnd(st.datsize, s.align) ELSE st.datsize
        here == <<seg, Len(st.sects)>>
    IN
    CASE kind = "skip" -> [st EXCEPT !.i = st.i + 1]
      [] kind \in {"elfw", "elfro"} ->
           LET end == al + rnd(s.size, PtrSize)
               sc  == [NewSection(s.name, IF kind = "elfw" THEN 6 ELSE 4, al)
                          EXCEPT !.len = end - al]
           IN  [st EXCEPT
                  !.sects = Append(st.sects, sc),
                  !.S = [st.S EXCEPT ![id].sect = <<seg, Len(st.sects) + 1>>,
                                     ![id].type = IF kind = "elfw" THEN SDATA ELSE SRODATA,
                                     ![id].value = al],
                  !.datsize = end,
                  !.i = st.i + 1]
      [] kind \in {"noptrdata", "data", "bss", "noptrbss"} ->
           LET t   == alignsymsize(s.size)
               ds  == aligndatsize(st.datsize, s)
               S1  == [st.S EXCEPT
                         ![id].sect = here,
                         ![id].type = IF kind \in {"noptrdata", "data"} THEN SDATA ELSE s.type,
                         ![id].value = ds]
               gc  == IF kind = "data" THEN st.gcdata1 ELSE st.gcbss1
               off == ds - st.sects[Len(st.sects)].vaddr
               S2  == IF kind \in {"data", "bss"}
                      THEN [S1 EXCEPT ![gc] = gcaddsym(S1, S1[gc], S1[id], off)]
                      ELSE S1
               dg  == IF (kind = "data" /\ s.type = SDATARELRO)
                         \/ (kind = "noptrbss" /\ s.type > SNOPTRBSS)
                      THEN {<<"unexpected symbol type", id>>} ELSE {}
           IN  [st EXCEPT !.S = S2, !.datsize = ds + t, !.i = st.i + 1,
                          !.diags = st.diags \cup dg]
      [] kind \in {"datarelro", "rodata"} ->
           [st EXCEPT
              !.S = [st.S EXCEPT ![id].sect = here,
                                 ![id].type = IF kind = "rodata" THEN SRODATA ELSE SDATA,
                                 ![id].value = al],
              !.datsize = al + rnd(s.size, PtrSize),
              !.i = st.i + 1]
      [] OTHER ->
           [st EXCEPT
              !.S = [st.S EXCEPT ![id].sect = here, ![id].type = SRODATA,
                                 ![id].value = st.datsize],
              !.datsize = st.datsize + s.size,
              !.i = st.i + 1]

RECURSIVE dodata_loop(_, _, _)
dodata_loop(st, kind, seg) ==
    IF st.i <= Len(st.dp) /\ dodata_cond(kind, st.S[st.dp[st.i]].type)
    THEN dodata_loop(dodata_place(st, kind, seg), kind, seg)
    ELSE st

\* sect = addsection(seg, name, rwx); sect->vaddr = vaddr;
dodata_open(st, name, rwx, vaddr) ==
    [st EXCEPT !.sects = Append(st.sects, NewSection(name, rwx, vaddr))]

\* sect->len = datsize - sect->vaddr; and, after all sections but .noptrbss,
\* datsize = rnd(datsize, PtrSize);
dodata_close(st, round) ==
    LET n == Len(st.sects) IN
    [st EXCEPT !.sects = [st.sects EXCEPT ![n].len = st.datsize - st.sects[n].vaddr],
               !.datsize = IF round THEN rnd(st.datsize, PtrSize) ELSE st.datsize]

\* One named section: opened at datsize, filled by its loop, closed.
dodata_section(st, name, rwx, kind, seg) ==
    dodata_close(dodata_loop(dodata_open(st, name, rwx, st.datsize), kind, seg),
                 kind # "noptrbss")

\* adduintxx(gc, GC_END, PtrSize); setuintxx(gc, 0, sect->len, PtrSize);
\* for gc = gcdata1 after .data and gcbss1 after .bss.
dodata_gcend(st, kind) ==
    LET gc == IF kind = "data" THEN st.gcdata1 ELSE st.gcbss1 IN
    [st EXCEPT !.S = [st.S EXCEPT ![gc] =
        setuintxx(adduintxx(st.S[gc], GC_END, PtrSize),
                  0, st.sects[Len(st.sects)].len, PtrSize)]]

\* The symbols admitted to datap, in allsym order.
dodata_admit(S) ==
    SelectSeq(AllsymOrder(S),
              LAMBDA i : S[i].reachable /\ ~S[i].special
                         /\ STEXT < S[i].type /\ S[i].type < SXREF)

\* "some symbols may no longer belong in datap"
dodata_prune(S, dp) ==
    SelectSeq(dp, LAMBDA i : ~(S[i].type <= STEXT \/ SXREF <= S[i].type))

\* Mutant of dodata_relro: no symbol is retyped.
dodata_relro_none(S, dp) == S

\* if(flag_shared) every symbol of datap with rel_ro becomes SDATARELRO.
dodata_relro(S, dp) ==
    IF flag_shared
    THEN [i \in 1..Len(S) |->
            IF (\E k \in 1..Len(dp) : dp[k] = i) /\ S[i].rel_ro
            THEN [S[i] EXCEPT !.type = SDATARELRO] ELSE S[i]]
    ELSE S

\* if(flag_shared) { the .data.rel.ro section }
dodata_datarelro(st) ==
    IF flag_shared
    THEN dodata_section(st, Name_datarelro, 6, "datarelro", "segdata")
    ELSE st

\* The segdata half of the layout: the sections of segdata, in order.
\* (Each step is taken on the value the step before it left.)
dodata_segdata(st0) ==
    Only({dodata_section(f, Name_noptrbss, 6, "noptrbss", "segdata") : f \in
         {dodata_gcend(dodata_section(e, Name_bss, 6, "bss", "segdata"), "bss") : e \in
         {dodata_gcend(dodata_section(d, Name_data, 6, "data", "segdata"), "data") : d \in
         {dodata_datarelro(c) : c \in
         {dodata_section(b, Name_noptrdata, 6, "noptrdata", "segdata") : b \in
         {dodata_loop([a EXCEPT !.datsize = 0], "elfw", "segdata") : a \in
         {dodata_loop([st0 EXCEPT !.i = 1], "skip", "segdata")}}}}}}})

\* The segtext half: .rodata starts again at the head of datap and at 0.
\* The sections of segdata are kept in st.segdata.
dodata_segtext(st0) ==
    Only({dodata_loop(f, "elfro", "segtext") : f \in
         {dodata_section(e, Name_gopclntab, 4, "gopclntab", "segtext") : e \in
         {dodata_section(d, Name_gosymtab, 4, "gosymtab", "segtext") : d \in
         {dodata_section(c, Name_gcbss, 4, "gcbss", "segtext") : c \in
         {dodata_section(b, Name_gcdata, 4, "gcdata", "segtext") : b \in
         {dodata_section(a, Name_typelink, 4, "typelink", "segtext") : a \in
         {dodata_close(
              dodata_loop(dodata_open([st0 EXCEPT !.i = 1, !.datsize = 0,
                                                  !.segdata = st0.sects,
                                                  !.sects = st0.segtext],
                                      Name_rodata, 4, 0),
                          "rodata", "segtext"), TRUE)}}}}}}})

\* gc = lookup(name, 0); gc->type = kind; gc->reachable = 1;
\* adduintxx(gc, 0, PtrSize);  l is what lookup returned.
dodata_gchead(st, l, kind, gc) ==
    [st EXCEPT !.S = [l.S EXCEPT ![l.id] =
                         adduintxx([@ EXCEPT !.type = kind, !.reachable = TRUE],
                                   0, PtrSize)],
               ![gc] = l.id]

dodata_gcsym(st, name, kind, gc) == dodata_gchead(st, lookup(st.S, name), kind, gc)

\* if(s->np > s->size) diag("%s: initialize bounds ...")
dodata_bounds(S, dp) ==
    {<<"initialize bounds", dp[k]>> : k \in {j \in 1..Len(dp) : S[dp[j]].np > S[dp[j]].size}}

\* The two loops that build datap and check it.
dodata_datap(st) ==
    [st EXCEPT !.dp = dodata_admit(st.S),
               !.diags = @ \cup dodata_bounds(st.S, dodata_admit(st.S))]

dodata_dynreloc(st) == dynreloc(st, st.tp, st.dp)

\* datap pruned, the rel_ro symbols retyped, datap = datsort(datap).
dodata_sort(st) ==
    LET dp1 == dodata_prune(st.S, st.dp)
        S5  == dodata_relro(st.S, dp1)
    IN  [st EXCEPT !.S = S5, !.dp = datsort_list(S5, dp1)]

\* What dodata leaves behind.
dodata_result(st) ==
    [S |-> st.S, datap |-> st.dp, segtext |-> st.sects, segdata |-> st.segdata,
     log |-> st.log, diags |-> st.diags, ub |-> st.ub]

\* Mutant of dodata: the dynamic relocations are recorded after the layout.
dodata_dynreloc_late(S0, tp, stext, sdata, log0, dg0) ==
    Only({dodata_result(g) : g \in
         {dodata_dynreloc(f) : f \in
         {dodata_segtext(e) : e \in
         {dodata_segdata(d) : d \in
         {dodata_sort(c) : c \in
         {dodata_datap(b) : b \in
         {dodata_gcsym(a, Name_gcbss1, SGCBSS, "gcbss1") : a \in
         {dodata_gcsym(st0, Name_gcdata1, SGCDATA, "gcdata1") : st0 \in
         {[S |-> S0, tp |-> tp, dp |-> <<>>, i |-> 1, datsize |-> 0,
           sects |-> sdata, segtext |-> stext, segdata |-> <<>>,
           diags |-> dg0, log |-> log0, ub |-> FALSE,
           gcdata1 |-> 0, gcbss1 |-> 0]}}}}}}}}})

\* dodata(): the symbol table, datap, both segments, the log and diagnostics.
\* (The boundary symbols "data"/"edata" etc. only receive a section pointer
\* here and are not part of the symbols laid out.)
dodata(S0, tp, stext, sdata, log0, dg0) ==
    Only({dodata_result(g) : g \in
         {dodata_segtext(f) : f \in
         {dodata_segdata(e) : e \in
         {dodata_sort(d) : d \in
         {dodata_dynreloc(c) : c \in
         {dodata_datap(b) : b \in
         {dodata_gcsym(a, Name_gcbss1, SGCBSS, "gcbss1") : a \in
         {dodata_gcsym(st0, Name_gcdata1, SGCDATA, "gcdata1") : st0 \in
         {[S |-> S0, tp |-> tp, dp |-> <<>>, i |-> 1, datsize |-> 0,
           sects |-> sdata, segtext |-> stext, segdata |-> <<>>,
           diags |-> dg0, log |-> log0, ub |-> FALSE,
           gcdata1 |-> 0, gcbss1 |-> 0]}}}}}}}}})

-----------------------------------------------------------------------------
(* dosymtype, textaddress, address.                                         *)

dosymtype(S) ==
    [i \in 1..Len(S) |->
        IF S[i].np > 0 /\ S[i].type = SBSS THEN [S[i] EXCEPT !.type = SDATA]
        ELSE IF S[i].np > 0 /\ S[i].type = SNOPTRBSS THEN [S[i] EXCEPT !.type = SNOPTRDATA]
        ELSE S[i]]

IsSub(ty) == (ty \div SSUB) % 2 = 1

\* for(sub = sym; sub != S; sub = sub->sub) sub->value += va;
RECURSIVE addsubs(_, _, _)
addsubs(S, sub, va) ==
    IF sub = 0 THEN S
    ELSE addsubs([S EXCEPT ![sub].value = S[sub].value + va], S[sub].sub, va)

\* The loop of textaddress over textp from position k, va being the address.
RECURSIVE textaddress_loop(_, _, _, _)
textaddress_loop(st, tp, k, sect) ==
    IF k > Len(tp) THEN st
    ELSE LET id == tp[k]
             S1 == [st.S EXCEPT ![id].sect = sect]
             s  == S1[id]
         IN  IF IsSub(s.type)
             THEN textaddress_loop([st EXCEPT !.S = S1], tp, k + 1, sect)
             ELSE LET va == IF s.align # 0 THEN rnd(st.va, s.align)
                            ELSE IF s.text THEN rnd(st.va, FuncAlign)
                            ELSE st.va
                      S2 == addsubs([S1 EXCEPT ![id].value = 0], id, va)
                  IN  textaddress_loop([S |-> S2, va |-> va + s.size], tp, k + 1, sect)

\* textaddress(): the symbol table and segtext.
textaddress(S, tp, stext) ==
    LET sx == Append(stext, NewSection(Name_text, 5, 0))
        st == textaddress_loop([S |-> S, va |-> INITTEXT], tp, 1, <<"segtext", 1>>)
        va == rnd(st.va, 128)
    IN  [S |-> st.S,
         segtext |-> [sx EXCEPT ![1].vaddr = INITTEXT, ![1].len = va - INITTEXT]]

\* for(s = seg.sect; s != nil; s = s->next) { s->vaddr = va; va += ...; }
RECURSIVE address_sects(_, _, _, _)
address_sects(sects, k, va, round) ==
    IF k > Len(sects) THEN [sects |-> sects, va |-> va]
    ELSE address_sects([sects EXCEPT ![k].vaddr = va], k + 1,
                       va + (IF round THEN rnd(sects[k].len, PtrSize) ELSE sects[k].len),
                       round)

\* Mutant of address_sym: every symbol is rebased on .rodata.
address_sym_rodata(S, id, rodata, data0) ==
    addsubs([S EXCEPT ![id].value = S[id].value + rodata], S[id].sub,
            S[id].value + rodata)

\* The rebase of one symbol of datap and of its sub-symbols.
address_sym(S, id, rodata, data0) ==
    LET v  == S[id].value + (IF S[id].type < SNOPTRDATA THEN rodata ELSE data0)
        S1 == [S EXCEPT ![id].value = v]
    IN  addsubs(S1, S1[id].sub, v)

RECURSIVE address_loop(_, _, _, _, _)
address_loop(S, dp, k, rodata, data0) ==
    IF k > Len(dp) THEN S
    ELSE address_loop(address_sym(S, dp[k], rodata, data0), dp, k + 1, rodata, data0)

\* address(): both segments and the symbol table.  rodata is the section
\* after .text in segtext.
address(S, dp, stext, sdata) ==
    LET t == address_sects(stext, 1, INITTEXT, TRUE)
        d == address_sects(sdata, 1, rnd(t.va, INITRND), FALSE)
    IN  [segtext |-> t.sects, segdata |-> d.sects,
         S |-> address_loop(S, dp, 1, t.sects[2].vaddr, d.sects[1].vaddr)]



-----------------------------------------------------------------------------
(* Relocation resolution.  st carries the symbol table S, the diagnostics  *)
(* and ub (a nil symbol was dereferenced).                                  *)

BoolInt(b) == IF b THEN 1 ELSE 0

\* x & m for a mask m that is 0 or 1.
BitAnd01(x, m) == IF m = 1 THEN x % 2 ELSE 0

\* r->sym->type & SMASK == 0 || r->sym->type & SMASK == SXREF, as C groups it:
\* == binds tighter than &.
relocsym_undefined(ty) ==
    BitAnd01(ty, BoolInt(SMASK = 0)) # 0 \/ BitAnd01(ty, BoolInt(SMASK = SXREF)) # 0

\* archreloc(r, s, &o): no architecture relocation is known here.
archreloc(r) == -1

\* rs = r->sym; while(rs->outer != nil) rs = rs->outer;
RECURSIVE outermost(_, _)
outermost(S, rs) == IF S[rs].outer = 0 THEN rs ELSE outermost(S, S[rs].outer)

\* Mutant of relocsym_pcrel: relative to the start of the slot, not its end.
relocsym_pcrel_start(S, s, r) ==
    (IF r.sym # 0 THEN symaddr(S, r.sym) ELSE 0) + r.add - (S[s].value + r.off)

\* case D_PCREL: o = 0; if(r->sym) o += symaddr(r->sym);
\* o += r->add - (s->value + r->off + r->siz);
relocsym_pcrel(S, s, r) ==
    (IF r.sym # 0 THEN symaddr(S, r.sym) ELSE 0) + r.add - (S[s].value + r.off + r.siz)

\* The first switch of relocsym: the value o, the diagnostics, nil dereferences.
relocsym_value(S, s, r) ==
    CASE r.type = D_ADDR ->
           IF r.sym = 0 THEN [o |-> 0, dg |-> {}, ub |-> TRUE]
           ELSE LET o == symaddr(S, r.sym) + r.add IN
                [o |-> IF isobj /\ S[r.sym].type # SCONST
                       THEN (IF thechar = "6" THEN 0
                             ELSE o - symaddr(S, outermost(S, r.sym)))
                       ELSE o,
                 dg |-> {}, ub |-> FALSE]
      [] r.type = D_PCREL ->
           LET o == relocsym_pcrel(S, s, r)
           IN  IF ~isobj THEN [o |-> o, dg |-> {}, ub |-> FALSE]
               ELSE IF r.sym = 0 THEN [o |-> o, dg |-> {}, ub |-> TRUE]
               ELSE [o |-> IF S[r.sym].type # SCONST
                           THEN (IF thechar = "6" THEN 0 ELSE r.add - r.siz)
                           ELSE o,
                     dg |-> {}, ub |-> FALSE]
      [] r.type = D_SIZE ->
           IF r.sym = 0 THEN [o |-> 0, dg |-> {}, ub |-> TRUE]
           ELSE [o |-> S[r.sym].size + r.add, dg |-> {}, ub |-> FALSE]
      [] OTHER ->
           [o |-> 0,
            dg |-> IF isobj \/ archreloc(r) < 0 THEN {<<"unknown reloc", s>>} ELSE {},
            ub |-> FALSE]

\* Mutant of relocsym_store: the value is added to what the slot holds.
relocsym_store_add(sy, off, siz, o) ==
    StoreBytes(sy, off, IntBytes(o + sy.p[off + 1], IF siz = 8 THEN 8 ELSE 4))

\* The second switch of relocsym: the bytes stored at s->p[off ..].
relocsym_store(sy, off, siz, o) ==
    IF siz = 8 THEN StoreBytes(sy, off, IntBytes(o, 8))
    ELSE StoreBytes(sy, off, IntBytes(o, 4))

\* One iteration of the loop of relocsym, for relocation k of s.  A nil
\* r->sym read for the value leaves no value to store; read only for the
\* "bad reloc size" message it leaves the store as it is.
relocsym1(st, s, k) ==
    LET S == st.S
        r == S[s].r[k]
    IN
    IF r.off < 0 \/ r.off + r.siz > S[s].np
    THEN [st EXCEPT !.diags = @ \cup {<<"invalid relocation", s>>}]
    ELSE IF r.sym # 0 /\ relocsym_undefined(S[r.sym].type)
    THEN [st EXCEPT !.diags = @ \cup {<<"not defined", r.sym>>}]
    ELSE IF r.type >= 256 THEN st
    ELSE LET d1 == IF r.sym # 0 /\ S[r.sym].type = SDYNIMPORT
                   THEN {<<"unhandled relocation", r.sym>>} ELSE {}
             d2 == IF r.sym # 0 /\ ~S[r.sym].reachable
                   THEN {<<"unreachable sym in relocation", s>>} ELSE {}
             v  == relocsym_value(S, s, r)
             d3 == IF r.siz \notin {4, 8} THEN {<<"bad reloc size", s>>} ELSE {}
         IN  IF v.ub
             THEN [st EXCEPT !.ub = TRUE, !.diags = @ \cup d1 \cup d2 \cup v.dg]
             ELSE [st EXCEPT
                     !.S = [S EXCEPT ![s] = relocsym_store(S[s], r.off, r.siz, v.o)],
                     !.ub = @ \/ (r.siz \notin {4, 8} /\ r.sym = 0),
                     !.diags = @ \cup d1 \cup d2 \cup v.dg \cup d3]

RECURSIVE relocsym_loop(_, _, _)
relocsym_loop(st, s, k) ==
    IF k > Len(st.S[s].r) THEN st ELSE relocsym_loop(relocsym1(st, s, k), s, k + 1)

relocsym(st, s) == relocsym_loop(st, s, 1)

RECURSIVE reloc_list(_, _, _)
reloc_list(st, l, k) ==
    IF k > Len(l) THEN st ELSE reloc_list(relocsym(st, l[k]), l, k + 1)

\* reloc(): relocsym over textp, then over datap.
reloc(S, tp, dp, dg) ==
    reloc_list(reloc_list([S |-> S, diags |-> dg, ub |-> FALSE], tp, 1), dp, 1)

-----------------------------------------------------------------------------
(* What does not change outside the pipeline.                              *)

NoLists == textp = <<>> /\ datap = <<>> /\ segtext = <<>> /\ segdata = <<>>

NoLogs == dynlog = <<>> /\ diags = {} /\ fault = FALSE

\* The linker takes no signal.
NoSignal == sigframe = <<>>

DefaultFlags ==
    flag_shared = FALSE /\ HEADTYPE = "Hlinux" /\ isobj = FALSE /\ debug_d = FALSE

-----------------------------------------------------------------------------
(* The link pipeline, in the order main calls it: textaddress, symtab       *)
(* (dosymtype), dodata, address, reloc.  reloc may run a second time.       *)
(* hist.kinds holds each symbol's kind as dodata found it, hist.pay each    *)
(* symbol's payload as the second reloc found it.                           *)

\* What no phase of a link changes: the flags, and the signal frame, which
\* belongs to the runtime.
Flags == <<thechar, flag_shared, HEADTYPE, isobj, debug_d, hostBE, sigframe>>

NoHist == [kinds |-> <<>>, pay |-> <<>>]

\* A store outside a buffer happened in S1 that had not happened in syms.
NewOob(S1) ==
    \E i \in 1..Len(S1) : S1[i].oob /\ (i > Len(syms) \/ ~syms[i].oob)

\* The step returned the table S1.  After undefined behaviour the process
\* is killed, or carries on with the stray access lost.
Done(S1, ub) ==
    /\ syms' = S1
    /\ fault' \in (IF ub \/ NewOob(S1) THEN BOOLEAN ELSE {FALSE})

Textaddress ==
    /\ pc = "start" /\ ~fault
    /\ \E t \in {textaddress(syms, textp, segtext)} :
         /\ Done(t.S, FALSE)
         /\ segtext' = t.segtext
    /\ pc' = "text"
    /\ UNCHANGED <<textp, datap, segdata, Flags, dynlog, diags, hist>>

Dosymtype ==
    /\ pc = "text" /\ ~fault
    /\ Done(dosymtype(syms), FALSE)
    /\ pc' = "typed"
    /\ UNCHANGED <<textp, datap, segtext, segdata, Flags, dynlog, diags, hist>>

Dodata ==
    /\ pc = "typed" /\ ~fault
    /\ \E d \in {dodata(syms, textp, segtext, segdata, dynlog, diags)} :
         /\ Done(d.S, d.ub)
         /\ datap' = d.datap
         /\ segtext' = d.segtext
         /\ segdata' = d.segdata
         /\ dynlog' = d.log
         /\ diags' = d.diags
    /\ hist' = [hist EXCEPT !.kinds = [i \in 1..Len(syms) |-> syms[i].type]]
    /\ pc' = "data"
    /\ UNCHANGED <<textp, Flags>>

Address ==
    /\ pc = "data" /\ ~fault
    /\ \E a \in {address(syms, datap, segtext, segdata)} :
         /\ Done(a.S, FALSE)
         /\ segtext' = a.segtext
         /\ segdata' = a.segdata
    /\ pc' = "addressed"
    /\ UNCHANGED <<textp, datap, Flags, dynlog, diags, hist>>

Reloc ==
    /\ pc \in {"addressed", "relocated"} /\ ~fault
    /\ \E r \in {reloc(syms, textp, datap, diags)} :
         /\ Done(r.S, r.ub)
         /\ diags' = r.diags
    /\ hist' = [hist EXCEPT !.pay = IF pc = "relocated"
                                    THEN [i \in 1..Len(syms) |-> Payload(syms[i])]
                                    ELSE <<>>]
    /\ pc' = IF pc = "addressed" THEN "relocated" ELSE "relocated2"
    /\ UNCHANGED <<textp, datap, segtext, segdata, Flags, dynlog>>

NextLink == Textaddress \/ Dosymtype \/ Dodata \/ Address \/ Reloc

\* A symbol as the object reader leaves it.
TextSym(name, size) ==
    [NewSym(name) EXCEPT !.type = STEXT, !.text = TRUE, !.reachable = TRUE,
                         !.size = size, !.np = size, !.maxp = size, !.p = Zeros(size)]

DataSym(name, kind, size, np, align) ==
    [NewSym(name) EXCEPT !.type = kind, !.reachable = TRUE, !.align = align,
                         !.size = size, !.np = np, !.maxp = np, !.p = Zeros(np)]

\* The symbols doelf has made before layout in shared mode: the dynamic
\* relocation symbol and .got.
ElfSyms ==
    IF flag_shared
    THEN <<DataSym(IF thechar = "6" THEN Name_rela ELSE Name_rel, SELFROSECT, 0, 0, 0),
           DataSym(Name_got, SELFSECT, 0, 0, 0)>>
    ELSE <<>>

-----------------------------------------------------------------------------
(* Specification SpecLayout: the text symbols f and g and the data symbols  *)
(* a and b, of any kind, size and alignment, through the pipeline.  In shared mode the  *)
(* first data symbol holds an address of the second.                        *)

MaxSymSize == 20

LayoutKinds == {SRODATA, STYPELINK, SSYMTAB, SPCLNTAB, SELFROSECT, SELFSECT,
                SNOPTRDATA, SDATA, SBSS, SNOPTRBSS}
LayoutSizes == {0, 1, 8, MaxSymSize}
LayoutAligns == {0, 16}

\* Data symbol i is named "a" or "b"; a symbol of a bss kind has no payload.
LayoutSym(i, kind, size, align) ==
    DataSym(<<96 + i>>, kind, size,
            IF kind \in {SBSS, SNOPTRBSS} THEN 0 ELSE size, align)

InitLayout ==
    /\ thechar \in {"6", "8"}
    /\ flag_shared \in BOOLEAN
    /\ HEADTYPE = "Hlinux" /\ isobj = FALSE /\ debug_d = FALSE /\ hostBE = FALSE
    /\ \E ks \in [1..2 -> LayoutKinds], zs \in [1..2 -> LayoutSizes],
          as \in [1..2 -> LayoutAligns] :
         /\ ks[1] < ks[2] \/ (ks[1] = ks[2] /\ zs[1] <= zs[2])
         /\ LET free == [i \in 1..2 |-> LayoutSym(i, ks[i], zs[i], as[i])]
                rl   == IF flag_shared THEN <<NewReloc(0, 4, D_ADDR, 4, 0)>> ELSE <<>>
            IN  syms = <<TextSym(<<102>>, 5), TextSym(<<103>>, 32)>>
                         \o [free EXCEPT ![1].r = rl] \o ElfSyms
    /\ textp = <<1, 2>> /\ datap = <<>> /\ segtext = <<>> /\ segdata = <<>>
    /\ pc = "start" /\ hist = NoHist
    /\ NoLogs /\ NoSignal

SpecLayout == InitLayout /\ [][NextLink]_vars

-----------------------------------------------------------------------------
(* Specification SpecReloc: text symbols f (1) and g (2), data a (3), bss  *)
(* b (4) and the constant c (5); one relocation of any shape in f, the     *)
(* address of b at the head of a and up to one more relocation in a.       *)

MaxAdd == 4

RelOffs == {16, 22}
RelSizes == {2, 4, 8}
RelTypes == {D_ADDR, D_PCREL, D_SIZE, 1, 256}
RelSyms == {0, 2, 3, 4, 5}
RelAdds == {0, 0 - MaxAdd}

RelSecond == {<<>>} \cup {<<NewReloc(off, 4, D_PCREL, 2, 0)>> : off \in {4, 8}}

InitReloc ==
    /\ thechar \in {"6", "8"}
    /\ isobj \in BOOLEAN
    /\ hostBE \in BOOLEAN
    /\ flag_shared = FALSE /\ HEADTYPE = "Hlinux" /\ debug_d = FALSE
    /\ \E off \in RelOffs, siz \in RelSizes, ty \in RelTypes, sy \in RelSyms,
          add \in RelAdds, r2 \in RelSecond :
         syms = <<[TextSym(<<102>>, 24) EXCEPT !.r = <<NewReloc(off, siz, ty, sy, add)>>],
                  TextSym(<<103>>, 8),
                  [DataSym(<<97>>, SDATA, 16, 16, 0)
                      EXCEPT !.r = <<NewReloc(0, 8, D_ADDR, 4, 0)>> \o r2],
                  DataSym(<<98>>, SBSS, 8, 0, 0),
                  [DataSym(<<99>>, SCONST, 0, 0, 0) EXCEPT !.value = 7]>>
    /\ textp = <<1, 2>> /\ datap = <<>> /\ segtext = <<>> /\ segdata = <<>>
    /\ pc = "start" /\ hist = NoHist
    /\ NoLogs /\ NoSignal

SpecReloc == InitReloc /\ [][NextLink]_vars

-----------------------------------------------------------------------------
(* Specification SpecDyn: a shared ELF link, or a Windows link, of text f  *)
(* (1), the local t (2), the import d (3), the exported e (4) and the data *)
(* symbols x (5) and y (6), each holding one relocation; then the symbols  *)
(* doelf or dope made: the dynamic relocation symbol and, for ELF, .got.   *)

DynKinds == {STYPE, SGOSTRING, SRODATA, SELFSECT, SNOPTRDATA, SDATA}
DynModes == {<<TRUE, "Hlinux">>, <<FALSE, "Hwindows">>}

DynSym(name, kind, rel) == [DataSym(name, kind, 16, 16, 0) EXCEPT !.r = rel]

InitDyn ==
    /\ thechar \in {"6", "8"}
    /\ \E m \in DynModes : flag_shared = m[1] /\ HEADTYPE = m[2]
    /\ debug_d \in BOOLEAN
    /\ isobj = FALSE /\ hostBE = FALSE
    /\ \E kx \in DynKinds, tx \in {D_ADDR, D_PCREL}, sx \in {2, 3, 4},
          ky \in {SDATA, SNOPTRDATA}, sy \in {2, 3}, hg \in BOOLEAN :
         syms = <<TextSym(<<102>>, 16),
                  DataSym(<<116>>, SDATA, 8, 8, 0),
                  [NewSym(<<100>>) EXCEPT !.type = SDYNIMPORT, !.reachable = TRUE,
                                          !.dynimpname = TRUE,
                                          !.plt = IF HEADTYPE = "Hwindows" THEN -2 ELSE -1],
                  [DataSym(<<101>>, SDATA, 8, 8, 0) EXCEPT !.dynimpname = TRUE,
                                                          !.dynexport = TRUE],
                  DynSym(<<120>>, kx, <<NewReloc(0, PtrSize, tx, sx, 0)>>),
                  DynSym(<<121>>, ky, <<NewReloc(8, PtrSize, D_ADDR, sy, 0)>>)>>
                \o (IF flag_shared
                    THEN <<ElfSyms[1],
                           IF hg THEN DynSym(Name_got, SELFSECT,
                                             <<NewReloc(0, PtrSize, D_ADDR, 2, 0)>>)
                           ELSE ElfSyms[2]>>
                    ELSE <<DataSym(Name_rel, SELFROSECT, 0, 0, 0)>>)
    /\ textp = <<1>> /\ datap = <<>> /\ segtext = <<>> /\ segdata = <<>>
    /\ pc = "start" /\ hist = NoHist
    /\ NoLogs /\ NoSignal

SpecDyn == InitDyn /\ [][NextLink]_vars

-----------------------------------------------------------------------------
(* Specification SpecEnc: the byte encoders applied, in any order, to one  *)
(* symbol (index 1); index 2 is the symbol the address slots refer to.     *)

MaxOps == 2
MaxEncSize == 16

EncOffs == {0, 1, 4, 8}
EncWidths == {1, 2, 4, 8}
EncVals(wid) ==
    CASE wid = 1 -> {161}
      [] wid = 2 -> {41394}
      [] wid = 4 -> {27439059}
      [] OTHER   -> {27439059, -2}
EncGrow == {4, 12}
EncStrs == {<<97>>, <<97, 98, 99>>}
EncAdds == {0, 12}
EncProgs ==
    { prog \in [off : {-1, 0, 4}, siz : {3, 8},
                totype : {0, D_CONST, D_FCONST, D_SCONST, D_ADDR, D_SIZE},
                tosym : {0, 2}, tooff : {5}, scon : {<<1, 2, 3, 4, 5, 6, 7, 8>>},
                l : {16909060}, h : {84281096}, f32 : {1065353216}] :
        (prog.tosym = 2) <=> (prog.totype \in {D_ADDR, D_SIZE}
                                \/ (prog.totype = D_CONST /\ prog.siz = 8 /\ prog.off = 4)) }

\* A symbol as the front end leaves it: named, possibly with a declared size
\* (GLOBL) and no payload yet.
EncDecl == {0, 8}

InitEnc ==
    /\ thechar \in {"6", "8"}
    /\ hostBE \in BOOLEAN
    /\ \E sz \in EncDecl :
         /\ syms = << [NewSym(<<115>>) EXCEPT !.size = sz,
                                              !.type = IF sz = 0 THEN 0 ELSE SBSS],
                      [NewSym(<<116>>) EXCEPT !.type = SDATA, !.reachable = TRUE,
                                              !.size = 8] >>
         /\ hist = [op |-> "none", off |-> 0, wid |-> 0, v |-> 0, n |-> 0,
                    pre |-> NewSym(<<115>>), start |-> sz, grown |-> FALSE]
    /\ pc = "enc"
    /\ NoLists /\ NoLogs /\ NoSignal /\ DefaultFlags

EncFrame ==
    UNCHANGED <<textp, datap, segtext, segdata, thechar, flag_shared, HEADTYPE,
                isobj, debug_d, hostBE, dynlog, sigframe>>

\* The encoder returned s2.  A store outside the buffer either kills the
\* process or is lost in memory the symbol does not own.
EncDone(s2, op, off, wid, v, g, dg) ==
    /\ pc = "enc" /\ ~fault /\ hist.n < MaxOps
    /\ s2.size <= MaxEncSize /\ s2.np <= MaxEncSize
    /\ syms' = [syms EXCEPT ![1] = s2]
    /\ hist' = [hist EXCEPT !.op = op, !.off = off, !.wid = wid, !.v = v,
                            !.n = hist.n + 1,
                            !.pre = IF op = "setuintxx" THEN syms[1] ELSE NewSym(<<115>>),
                            !.grown = hist.grown \/ g]
    /\ fault' \in (IF s2.oob /\ ~syms[1].oob THEN BOOLEAN ELSE {FALSE})
    /\ diags' = diags \cup dg
    /\ pc' = pc
    /\ EncFrame

EncSymgrow ==
    \E n \in EncGrow : EncDone(symgrow(syms[1], n), "symgrow", 0, 0, 0, TRUE, {})

EncSetuintxx ==
    \E off \in EncOffs, wid \in EncWidths : \E v \in EncVals(wid) :
        EncDone(setuintxx(syms[1], off, v, wid), "setuintxx", off, wid, v, FALSE, {})

EncAdduintxx ==
    \E wid \in EncWidths : \E v \in EncVals(wid) :
        EncDone(adduintxx(syms[1], v, wid), "adduintxx", 0, 0, 0, FALSE, {})

EncAddaddrplus ==
    \E add \in EncAdds :
        EncDone(addaddrplus(syms[1], 2, add), "addaddrplus", 0, 0, 0, FALSE, {})

EncAddaddrplus4 ==
    \E add \in EncAdds :
        EncDone(addaddrplus4(syms[1], 2, add), "addaddrplus4", 0, 0, 0, FALSE, {})

EncAddpcrelplus ==
    \E add \in EncAdds :
        EncDone(addpcrelplus(syms[1], 2, add), "addpcrelplus", 0, 0, 0, FALSE, {})

EncAddsize ==
    EncDone(addsize(syms[1], 2), "addsize", 0, 0, 0, FALSE, {})

EncSetaddrplus ==
    \E off \in EncOffs, add \in EncAdds :
        EncDone(setaddrplus(syms[1], off, 2, add), "setaddrplus", 0, 0, 0, FALSE, {})

EncAddstring ==
    \E str \in EncStrs :
        EncDone(addstring(syms[1], str), "addstring", 0, 0, 0, FALSE, {})

EncSavedata ==
    \E prog \in EncProgs :
        /\ ~mangled(prog)
        /\ EncDone(savedata(syms[1], prog), "savedata", 0, 0,
                   0, TRUE, savedata_diag(prog))

\* mangle(pn): the input file is rejected and the link ends.
EncMangle ==
    \E prog \in EncProgs :
        /\ pc = "enc" /\ ~fault /\ hist.n < MaxOps
        /\ mangled(prog)
        /\ pc' = "errorexit"
        /\ diags' = diags \cup {"mangled input file"}
        /\ UNCHANGED <<syms, hist, fault>>
        /\ EncFrame

NextEnc ==
    \/ EncSymgrow \/ EncSetuintxx \/ EncAdduintxx \/ EncAddaddrplus
    \/ EncAddaddrplus4 \/ EncAddpcrelplus \/ EncAddsize \/ EncSetaddrplus
    \/ EncAddstring \/ EncSavedata \/ EncMangle

SpecEnc == InitEnc /\ [][NextEnc]_vars

\* Reading a slot back through the table that wrote it: the bytes are put
\* where the table says they came from in a host integer, and the integer is
\* listed from its least significant byte.
DecodeUint(s, off, wid) ==
    LET n == CastWidth(wid)
        cast == [j \in 0..(n - 1) |->
                   IF \E i \in 0..(wid - 1) : inuxi(wid, i) = j
                   THEN LET i == CHOOSE i \in 0..(wid - 1) : inuxi(wid, i) = j
                        IN  IF off + i + 1 <= s.np THEN s.p[off + i + 1] ELSE -1
                   ELSE 0]
    IN  [k \in 1..wid |-> cast[IF hostBE THEN n - k ELSE k - 1]]

ValueBytes(v, wid) == [k \in 1..wid |-> Byte(v, k - 1)]

(* C9: after set_uint(s, off, v, w) the payload reaches off + w, the slot   *)
(* decodes to v through the same permutation table, and no earlier payload *)
(* byte outside the slot has changed, whatever the symbol's declared size. *)
C9_SetUintRoundTrip ==
    hist.op = "setuintxx" =>
        LET s == syms[1] IN
        /\ s.np >= hist.off + hist.wid
        /\ DecodeUint(s, hist.off, hist.wid) = ValueBytes(hist.v, hist.wid)
        /\ \A i \in 1..hist.pre.np :
              (i - 1 < hist.off \/ i - 1 >= hist.off + hist.wid)
                  => (i <= s.np /\ s.p[i] = hist.pre.p[i])

\* The same, for the calls that do not find a declared size beyond the payload.
SetUintRoundTripWhenBacked ==
    (hist.op = "setuintxx"
       /\ (hist.pre.size < hist.off + hist.wid \/ hist.pre.np >= hist.off + hist.wid)) =>
        LET s == syms[1] IN
        /\ s.np >= hist.off + hist.wid
        /\ DecodeUint(s, hist.off, hist.wid) = ValueBytes(hist.v, hist.wid)
        /\ \A i \in 1..hist.pre.np :
              (i - 1 < hist.off \/ i - 1 >= hist.off + hist.wid)
                  => (i <= s.np /\ s.p[i] = hist.pre.p[i])

RelocsInPayload(s) ==
    \A k \in 1..Len(s.r) : 0 <= s.r[k].off /\ s.r[k].off + s.r[k].siz <= s.np

(* C10 as stated: after any sequence of encoder operations on a symbol that *)
(* starts empty, payload_len <= size and every relocation lies inside the   *)
(* payload.                                                                 *)
C10_EncoderInvariant_Original ==
    hist.start = 0 => (syms[1].np <= syms[1].size /\ RelocsInPayload(syms[1]))

(* C10 amended: on a symbol that starts empty every relocation lies inside  *)
(* the payload and size <= payload_len; payload_len <= size (so the two are *)
(* equal) as long as neither grow nor save_data has been applied.           *)
C10_EncoderInvariant ==
    hist.start = 0 =>
        /\ RelocsInPayload(syms[1])
        /\ syms[1].size <= syms[1].np
        /\ (~hist.grown => syms[1].np = syms[1].size)

C10_Witness ==
    /\ hist.start = 0 /\ hist.grown /\ hist.n = MaxOps
    /\ syms[1].np > syms[1].size
    /\ Len(syms[1].r) > 0

-----------------------------------------------------------------------------
(* Specification SpecSort: datsort applied to every list of up to MaxList  *)
(* symbols whose keys are drawn from SortTypes, SortSizes and SortNames.   *)
(* Two symbols may carry the same name (static symbols of two versions).   *)

MaxList == 4
SortTypes == {SRODATA, SDATA}
SortSizes == {0, 8}
SortNames == {<<97>>, <<97, 98>>, <<98>>}

InitSort ==
    /\ \E n \in 0..MaxList :
         \E ty \in [1..n -> SortTypes], sz \in [1..n -> SortSizes],
            nm \in [1..n -> SortNames] :
            syms = [i \in 1..n |->
                      [NewSym(nm[i]) EXCEPT !.type = ty[i], !.size = sz[i],
                                            !.reachable = TRUE]]
    /\ datap = [i \in 1..Len(syms) |-> i]
    /\ pc = "unsorted"
    /\ hist = <<>>
    /\ thechar = "6" /\ hostBE = FALSE
    /\ textp = <<>> /\ segtext = <<>> /\ segdata = <<>>
    /\ NoLogs /\ NoSignal /\ DefaultFlags

Datsort ==
    /\ pc = "unsorted"
    /\ datap' = datsort_list(syms, datap)
    /\ hist' = datap
    /\ pc' = "sorted"
    /\ UNCHANGED <<syms, textp, segtext, segdata, thechar, flag_shared, HEADTYPE,
                   isobj, debug_d, hostBE, dynlog, diags, fault, sigframe>>

NextSort == Datsort

SpecSort == InitSort /\ [][NextSort]_vars

IsPermutation(l, m) ==
    /\ Len(l) = Len(m)
    /\ \A i \in 1..Len(m) : Cardinality({k \in 1..Len(l) : l[k] = m[i]}) = 1

\* a is b, or a proper prefix of b, or smaller at the first difference.
NameLeq(a, b) ==
    \/ a = b
    \/ \E k \in 1..Len(b) :
          /\ \A j \in 1..(k - 1) : j <= Len(a) /\ a[j] = b[j]
          /\ (k > Len(a) \/ a[k] < b[k])

\* The key order: kind ascending, then size ascending, then name.
KeyLeq(a, b) ==
    \/ a.type < b.type
    \/ a.type = b.type /\ a.size < b.size
    \/ a.type = b.type /\ a.size = b.size /\ NameLeq(a.name, b.name)

(* C5: datsort terminates on every finite nil-terminated list (the call on  *)
(* a list not yet sorted returns a list), and the list it returns is        *)
(* nil-terminated, a permutation of its input, and ordered by kind, then    *)
(* size, then name: datcmp(a, b) <= 0 for every adjacent pair a, b.         *)
C5_DatsortSortsPermutation ==
    /\ pc = "unsorted" => Len(datsort_list(syms, datap)) = Len(datap)
    /\ pc = "sorted" =>
          /\ IsPermutation(datap, hist)
          /\ \A k \in 1..(Len(datap) - 1) :
                /\ datcmp(syms[datap[k]], syms[datap[k + 1]]) <= 0
                /\ KeyLeq(syms[datap[k]], syms[datap[k + 1]])

C5_Witness ==
    /\ pc = "sorted" /\ Len(datap) = MaxList /\ datap # hist
    /\ \E k \in 1..(Len(datap) - 1) :
          datcmp(syms[datap[k]], syms[datap[k + 1]]) = 0

-----------------------------------------------------------------------------
(* Layout properties, under SpecLayout.                                     *)

SectOf(s) == IF s.sect[1] = "segtext" THEN segtext[s.sect[2]] ELSE segdata[s.sect[2]]

Placed == {textp[k] : k \in 1..Len(textp)} \cup {datap[k] : k \in 1..Len(datap)}

LaidOut == pc \in {"data", "addressed", "relocated", "relocated2"}
Addressed == pc \in {"addressed", "relocated", "relocated2"}

Inside(s) ==
    /\ s.sect # <<>>
    /\ SectOf(s).vaddr <= s.value
    /\ s.value + s.size <= SectOf(s).vaddr + SectOf(s).len

(* C1: after textaddress, dodata and address, every text symbol and every  *)
(* symbol of datap lies inside its section:                                *)
(* S.vaddr <= s.value and s.value + s.size <= S.vaddr + S.len.             *)
C1_SymbolsInsideSections ==
    (Addressed /\ ~fault) => \A i \in Placed : Inside(syms[i])

(* C2: after dodata and address, non-SUB symbols of the same section do    *)
(* not overlap: in list order, next.value >= prev.value + prev.size.       *)
C2_NoOverlapInSection ==
    /\ (pc # "start" /\ ~fault) =>
          \A k1, k2 \in 1..Len(textp) :
             k1 < k2 => syms[textp[k2]].value >= syms[textp[k1]].value + syms[textp[k1]].size
    /\ (LaidOut /\ ~fault) =>
          \A k1, k2 \in 1..Len(datap) :
             (k1 < k2 /\ syms[datap[k1]].sect = syms[datap[k2]].sect)
                => syms[datap[k2]].value >= syms[datap[k1]].value + syms[datap[k1]].size

\* Two symbols of nonzero size share a section after address.
C2_Witness ==
    /\ pc = "addressed" /\ ~fault
    /\ \E k1, k2 \in 1..Len(datap) :
          /\ k1 < k2 /\ syms[datap[k1]].sect = syms[datap[k2]].sect
          /\ syms[datap[k1]].size > 0 /\ syms[datap[k2]].size > 0
          /\ syms[datap[k1]].sect[1] = "segdata"

ValueOrdered(ks) ==
    \A k1, k2 \in ks : k1 < k2 => syms[datap[k1]].value <= syms[datap[k2]].value

InSeg(seg) == {k \in 1..Len(datap) : syms[datap[k]].sect[1] = seg}

KindAtLayout(i) ==
    IF flag_shared /\ syms[i].rel_ro THEN SDATARELRO
    ELSE IF i <= Len(hist.kinds) /\ hist.kinds[i] # 0 THEN hist.kinds[i]
    ELSE IF syms[i].name = Name_gcdata1 THEN SGCDATA
    ELSE IF syms[i].name = Name_gcbss1 THEN SGCBSS
    ELSE 0

\* The section a kind selects: its segment, name and whether it is the
\* symbol's own.
SectionFor(k, name) ==
    CASE k < STYPELINK   -> <<"segtext", Name_rodata, FALSE>>
      [] k = STYPELINK   -> <<"segtext", Name_typelink, FALSE>>
      [] k = SGCDATA     -> <<"segtext", Name_gcdata, FALSE>>
      [] k = SGCBSS      -> <<"segtext", Name_gcbss, FALSE>>
      [] k = SSYMTAB     -> <<"segtext", Name_gosymtab, FALSE>>
      [] k = SPCLNTAB    -> <<"segtext", Name_gopclntab, FALSE>>
      [] k = SELFROSECT  -> <<"segtext", name, TRUE>>
      [] k = SELFSECT    -> <<"segdata", name, TRUE>>
      [] k = SNOPTRDATA  -> <<"segdata", Name_noptrdata, FALSE>>
      [] k = SDATARELRO  -> <<"segdata", Name_datarelro, FALSE>>
      [] k = SDATA       -> <<"segdata", Name_data, FALSE>>
      [] k = SBSS        -> <<"segdata", Name_bss, FALSE>>
      [] OTHER           -> <<"segdata", Name_noptrbss, FALSE>>

InItsSection(i) ==
    LET s == syms[i]
        e == SectionFor(KindAtLayout(i), s.name)
    IN  /\ Cardinality({k \in 1..Len(datap) : datap[k] = i}) = 1
        /\ s.sect # <<>>
        /\ s.sect[1] = e[1]
        /\ s.sect[2] \in 1..Len(IF e[1] = "segtext" THEN segtext ELSE segdata)
        /\ SectOf(s).name = e[2]
        /\ SectOf(s).rwx = (IF e[1] = "segtext" THEN 4 ELSE 6)
        /\ e[3] => \A j \in 1..Len(syms) : syms[j].sect = s.sect => j = i

(* C4: after dodata every reachable, non-special symbol of a kind strictly *)
(* between TEXT and XREF is in datap exactly once and lies in the one      *)
(* section its kind selects; no symbol of datap is without a section.      *)
C4_EachSymbolInItsSection ==
    (LaidOut /\ ~fault) =>
        /\ \A i \in 1..Len(syms) :
              (syms[i].reachable /\ ~syms[i].special
                 /\ STEXT < KindAtLayout(i) /\ KindAtLayout(i) < SXREF) => InItsSection(i)
        /\ \A k \in 1..Len(datap) : syms[datap[k]].sect # <<>>

\* Layout ended with a symbol promoted to .data.rel.ro next to a symbol in
\* a section of its own.
C4_Witness ==
    /\ pc = "data" /\ ~fault /\ flag_shared
    /\ \E i, j \in 1..Len(syms) :
          /\ syms[i].rel_ro /\ syms[i].sect # <<>> /\ SectOf(syms[i]).name = Name_datarelro
          /\ j <= Len(hist.kinds) /\ hist.kinds[j] = SELFSECT /\ syms[j].size > 0
          /\ syms[j].sect # <<>> /\ SectOf(syms[j]).name = syms[j].name


-----------------------------------------------------------------------------
(* Relocation properties, under SpecReloc.                                 *)

\* The bytes relocsym writes for relocation r: 8 for siz 8, otherwise 4.
WrittenWidth(r) == IF r.siz = 8 THEN 8 ELSE 4

\* Relocation k of symbol i passes validation and is resolved by data.c.
Resolved(i, k) ==
    LET r == syms[i].r[k] IN
    /\ r.off >= 0 /\ r.off + r.siz <= syms[i].np
    /\ r.type \in {D_ADDR, D_PCREL, D_SIZE}
    /\ r.type \in {D_ADDR, D_SIZE} => r.sym # 0

\* A later relocation of symbol i writes over the slot of relocation k.
Overwritten(i, k) ==
    \E k2 \in (k + 1)..Len(syms[i].r) :
       LET r == syms[i].r[k]
           q == syms[i].r[k2]
       IN  /\ q.off >= 0 /\ q.off + q.siz <= syms[i].np /\ q.type < 256
           /\ q.off < r.off + r.siz /\ r.off < q.off + WrittenWidth(q)

\* The value the claim gives for relocation r of symbol i.
ValueOf(i, r) ==
    CASE r.type = D_ADDR  -> symaddr(syms, r.sym) + r.add
      [] r.type = D_PCREL -> (IF r.sym # 0 THEN symaddr(syms, r.sym) ELSE 0)
                               + r.add - (syms[i].value + r.off + r.siz)
      [] OTHER            -> syms[r.sym].size + r.add

(* C6: in executable mode, after reloc the slot [r.off, r.off + r.siz) of   *)
(* every validated relocation of type ADDR, PCREL or SIZE holds, low byte   *)
(* first and truncated to siz bytes, symaddr(r.sym) + r.add, respectively   *)
(* symaddr(r.sym) (0 if null) + r.add - (s.value + r.off + r.siz),          *)
(* respectively r.sym.size + r.add.                                         *)
C6_RelocStoresValue ==
    (pc = "relocated" /\ ~fault /\ ~isobj) =>
        \A i \in Placed : \A k \in 1..Len(syms[i].r) :
           (Resolved(i, k) /\ ~Overwritten(i, k)) =>
               Slot(syms[i], syms[i].r[k].off, syms[i].r[k].siz)
                  = ValueBytes(ValueOf(i, syms[i].r[k]), syms[i].r[k].siz)

\* The two cases the claim singles out: the 8-byte ADDR slot of a decodes to
\* the value of b, the 4-byte PCREL slot at offset 16 of f to g - (f + 20).
C6_Witness ==
    /\ pc = "relocated" /\ ~fault /\ ~isobj /\ Len(syms[3].r) = 1
    /\ Slot(syms[3], 0, 8) = ValueBytes(syms[4].value, 8)
    /\ syms[4].value > INITTEXT
    /\ syms[1].r[1] = NewReloc(16, 4, D_PCREL, 2, 0)
    /\ Slot(syms[1], 16, 4) = ValueBytes(syms[2].value - (syms[1].value + 20), 4)
    /\ syms[2].value - (syms[1].value + 20) # 0

(* C7: a second run of reloc on the laid-out symbols leaves every symbol's *)
(* payload as the first run left it.                                       *)
C7_RelocIdempotent ==
    (pc = "relocated2" /\ ~fault) =>
        \A i \in 1..Len(syms) : Payload(syms[i]) = hist.pay[i]

\* reloc has run twice and the payloads of f and a hold resolved values.
C7_Witness ==
    /\ pc = "relocated2" /\ ~fault
    /\ Resolved(1, 1) /\ Payload(syms[1]) # Zeros(syms[1].np)
    /\ Payload(syms[3]) # Zeros(syms[3].np)

-----------------------------------------------------------------------------
(* Dynamic relocation properties, under SpecDyn.                            *)

Local(i) == ~syms[i].dynimpname \/ syms[i].dynexport

\* The dynamic relocation symbol of the ELF path.
RelSym == CHOOSE i \in 1..Len(syms) :
             syms[i].name = (IF thechar = "6" THEN Name_rela ELSE Name_rel)

\* adddynrela was called for relocation k of symbol i and its RELATIVE
\* record is in the dynamic relocation symbol.
HasRelative(i, k) ==
    /\ \E n \in 1..Len(dynlog) : dynlog[n] = [fn |-> "adddynrela", s |-> i, k |-> k]
    /\ \E n \in 1..Len(syms[RelSym].r) :
          LET q == syms[RelSym].r[n] IN
          /\ q.sym = i /\ q.add = syms[i].r[k].off /\ q.type = D_ADDR
          /\ Slot(syms[RelSym], q.off + PtrSize, 1) = <<R_RELATIVE>>

\* The ADDR relocations to local symbols in symbols of writable sections:
\* pairs of a symbol of datap and the index of one of its relocations.
WritableAddr ==
    {ik \in (1..Len(syms)) \X (1..1) :
        /\ \E n \in 1..Len(datap) : datap[n] = ik[1]
        /\ syms[ik[1]].sect # <<>> /\ syms[ik[1]].sect[1] = "segdata"
        /\ ik[2] <= Len(syms[ik[1]].r)
        /\ syms[ik[1]].r[ik[2]].type = D_ADDR
        /\ syms[ik[1]].r[ik[2]].sym # 0 /\ Local(syms[ik[1]].r[ik[2]].sym)}

SharedElf == flag_shared /\ HEADTYPE # "Hwindows"

(* C8, as stated: in shared mode every ADDR relocation to a local symbol   *)
(* in a symbol laid out in a writable section has a RELATIVE record.       *)
C8_RelativeRecords_Original ==
    (LaidOut /\ ~fault /\ SharedElf) =>
        \A ik \in WritableAddr : HasRelative(ik[1], ik[2])

(* C8, amended: in shared mode without -d every ADDR relocation to a local *)
(* symbol that sits in .got or in a symbol of kind DATA, GOSTRING, TYPE or *)
(* RODATA has a RELATIVE record; the symbols of the other kinds laid out   *)
(* in writable sections, and any link with -d, get none.                   *)
C8_RelativeRecords ==
    (LaidOut /\ ~fault /\ SharedElf) =>
        \A ik \in WritableAddr :
           HasRelative(ik[1], ik[2])
              <=> (/\ ~debug_d
                   /\ \/ syms[ik[1]].name = Name_got
                      \/ hist.kinds[ik[1]] \in {SDATA, SGOSTRING, STYPE, SRODATA})

\* A shared link laid out .got, a TYPE symbol and a DATA symbol, each with
\* an address of a local symbol in it.
C8_Witness ==
    /\ pc = "data" /\ ~fault /\ SharedElf /\ ~debug_d
    /\ Cardinality(WritableAddr) = 3
    /\ hist.kinds[5] = STYPE /\ syms[5].rel_ro
    /\ \A ik \in WritableAddr : HasRelative(ik[1], ik[2])

-----------------------------------------------------------------------------
(* Specification SpecGc: text f (1), the type descriptor ty (2) whose first *)
(* relocation names its GC program gp (3), and the data symbols p (4) and   *)
(* q (5) of any of three kinds and four sizes, typed by ty or untyped; p    *)
(* may be named ".string" and q may be 16-aligned.                          *)

GcKinds == {SNOPTRDATA, SDATA, SBSS}
GcSizes == {4, 8, 12, 24}
GcNames == {<<112>>, Name_string}
GcTypes == {0, 2}

GcSym(name, kind, size, align, gotype) ==
    [DataSym(name, kind, size, IF kind = SBSS THEN 0 ELSE size, align)
        EXCEPT !.gotype = gotype]

InitGc ==
    /\ thechar \in {"6", "8"}
    /\ hostBE \in BOOLEAN
    /\ flag_shared = FALSE /\ HEADTYPE = "Hlinux" /\ isobj = FALSE /\ debug_d = FALSE
    /\ \E kp \in GcKinds, kq \in GcKinds, zp \in GcSizes, zq \in GcSizes,
          np \in GcNames, aq \in LayoutAligns, gp \in GcTypes, gq \in GcTypes :
         syms = <<TextSym(<<102>>, 16),
                  [DataSym(<<116, 121>>, STYPE, 8, 8, 0)
                      EXCEPT !.r = <<NewReloc(0, 4, D_ADDR, 3, 0)>>],
                  DataSym(<<103, 112>>, SRODATA, 8, 8, 0),
                  GcSym(np, kp, zp, 0, gp),
                  GcSym(<<113>>, kq, zq, aq, gq)>>
    /\ textp = <<1>> /\ datap = <<>> /\ segtext = <<>> /\ segdata = <<>>
    /\ pc = "start" /\ hist = NoHist
    /\ NoLogs /\ NoSignal

SpecGc == InitGc /\ [][NextLink]_vars

-----------------------------------------------------------------------------
(* The GC programs.                                                         *)

\* A pointer-sized little-endian word holding v, 0 <= v < 65536.
GcWord(v) ==
    [i \in 1..PtrSize |-> IF i = 1 THEN v % 256 ELSE IF i = 2 THEN (v \div 256) % 256 ELSE 0]

\* The index of the symbol named name, and of the section of segdata.
SymNamed(name) == CHOOSE i \in 1..Len(syms) : syms[i].name = name
DataSect(name) == CHOOSE k \in 1..Len(segdata) : segdata[k].name = name

\* The symbols placed in section k of segdata, in layout order.
MembersOf(k) == SelectSeq(datap, LAMBDA i : syms[i].sect = <<"segdata", k>>)

\* The symbol's offset within its section.
SectOff(i) == syms[i].value - SectOf(syms[i]).vaddr

\* The pointer-aligned whole pointer slots inside symbol i, as section offsets.
PtrSlots(i) ==
    {o \in SectOff(i)..(SectOff(i) + syms[i].size) :
        o % PtrSize = 0 /\ o + PtrSize <= SectOff(i) + syms[i].size}

RECURSIVE GcAptrs(_)
GcAptrs(os) ==
    IF os = {} THEN <<>>
    ELSE LET o == CHOOSE x \in os : \A y \in os : x <= y
         IN  GcWord(GC_APTR) \o GcWord(o) \o GcAptrs(os \ {o})

\* The records symbol i contributes, and the offsets of their PCREL slots.
GcRecords(i) ==
    IF syms[i].size < PtrSize \/ syms[i].name = Name_string THEN <<>>
    ELSE IF syms[i].gotype # 0
         THEN GcWord(GC_CALL) \o GcWord(SectOff(i)) \o Zeros(4)
                 \o (IF PtrSize = 8 THEN Zeros(4) ELSE <<>>)
         ELSE GcAptrs(PtrSlots(i))

RECURSIVE GcBody(_, _)
GcBody(l, k) == IF k > Len(l) THEN <<>> ELSE GcRecords(l[k]) \o GcBody(l, k + 1)

\* The PCREL slots of the program: one for each typed symbol, in order.
RECURSIVE GcSlots(_, _, _)
GcSlots(l, k, at) ==
    IF k > Len(l) THEN <<>>
    ELSE (IF Len(GcRecords(l[k])) > 0 /\ syms[l[k]].gotype # 0
          THEN <<NewReloc(at + 2 * PtrSize, 4, D_PCREL,
                          syms[syms[l[k]].gotype].r[1].sym, 3 * PtrSize + 4)>>
          ELSE <<>>)
         \o GcSlots(l, k + 1, at + Len(GcRecords(l[k])))

GcProgramIs(gc, sect) ==
    LET g == syms[SymNamed(gc)]
        k == DataSect(sect)
        l == MembersOf(k)
    IN  /\ Payload(g) = GcWord(segdata[k].len) \o GcBody(l, 1) \o GcWord(GC_END)
        /\ g.size = g.np
        /\ g.r = GcSlots(l, 1, PtrSize)

(* C11: after dodata the payload of gcdata1 (gcbss1) is exactly one word    *)
(* holding the final length of .data (.bss), then for each symbol placed in *)
(* the section, in layout order, of size >= PtrSize and not named .string,  *)
(* either GC_CALL, its section offset and a 4-byte PCREL slot to            *)
(* decodetype_gc(gotype) (plus 4 zero bytes on 64-bit) or one (GC_APTR,     *)
(* offset) record for each pointer-aligned whole slot in ascending order,   *)
(* then one GC_END word.                                                    *)
C11_GcPrograms ==
    (pc = "data" /\ ~fault) =>
        /\ GcProgramIs(Name_gcdata1, Name_data)
        /\ GcProgramIs(Name_gcbss1, Name_bss)

\* A 24-byte untyped symbol and a typed one, both in .data on amd64: the
\* program holds three GC_APTR records at off, off+8, off+16.
C11_Witness ==
    /\ pc = "data" /\ ~fault /\ thechar = "6"
    /\ syms[5].size = 24 /\ syms[5].gotype = 0 /\ SectOff(5) % 8 = 0
    /\ SectOf(syms[5]).name = Name_data
    /\ syms[4].gotype # 0 /\ syms[4].size = 8 /\ syms[4].name # Name_string
    /\ SectOf(syms[4]).name = Name_data
    /\ GcRecords(5) = GcWord(GC_APTR) \o GcWord(SectOff(5))
                        \o GcWord(GC_APTR) \o GcWord(SectOff(5) + 8)
                        \o GcWord(GC_APTR) \o GcWord(SectOff(5) + 16)
    /\ Len(Payload(syms[SymNamed(Name_gcdata1)])) = 88

-----------------------------------------------------------------------------
(* Phase order inside dodata.                                               *)

\* dodata as it stands when datap has been sorted: no value is assigned yet.
DodataSorted ==
    Only({dodata_sort(d) : d \in
         {dodata_dynreloc(c) : c \in
         {dodata_datap(b) : b \in
         {dodata_gcsym(a, Name_gcbss1, SGCBSS, "gcbss1") : a \in
         {dodata_gcsym(st0, Name_gcdata1, SGCDATA, "gcdata1") : st0 \in
         {[S |-> syms, tp |-> textp, dp |-> <<>>, i |-> 1, datsize |-> 0,
           sects |-> segdata, segtext |-> segtext, segdata |-> <<>>,
           diags |-> diags, log |-> dynlog, ub |-> FALSE,
           gcdata1 |-> 0, gcbss1 |-> 0]}}}}}})

\* dodata as it stands when segdata is laid out and segtext is not.
DodataSegdataDone == dodata_segdata(DodataSorted)

IsGcSym(s) == s.name = Name_gcdata1 \/ s.name = Name_gcbss1

\* Symbol i as dodata leaves it lies, with the size it ends with, inside
\* the section it was given.
ExtentFromFinalSize(i) ==
    LET s  == syms'[i]
        sc == IF s.sect[1] = "segtext" THEN segtext'[s.sect[2]] ELSE segdata'[s.sect[2]]
    IN  sc.vaddr <= s.value /\ s.value + s.size <= sc.vaddr + sc.len

(* C12: no symbol of datap changes size after its value has been assigned:  *)
(* every symbol of datap but gcdata1 and gcbss1 has its final size when     *)
(* datap is sorted and is given its value only later; gcdata1 and gcbss1    *)
(* have their final size (GC_END included) when segdata is done and are     *)
(* given their value only in segtext; so every symbol's extent, taken with  *)
(* its final size, lies inside its section.                                 *)
C12_SizeFinalBeforeValue ==
    [][(pc = "typed" /\ pc' = "data" /\ ~fault') =>
         \A k \in 1..Len(datap') :
            LET i == datap'[k] IN
            /\ IF IsGcSym(syms'[i])
               THEN /\ DodataSegdataDone.S[i].size = syms'[i].size
                    /\ DodataSegdataDone.S[i].sect = <<>>
                    /\ syms'[i].sect[1] = "segtext"
               ELSE /\ DodataSorted.S[i].size = syms'[i].size
                    /\ DodataSorted.S[i].sect = <<>>
            /\ ExtentFromFinalSize(i)]_vars

\* dodata has run on a shared link in which the dynamic relocation symbol
\* grew by RELATIVE records and gcdata1 by records and GC_END, and both are
\* laid out.
C12_Witness ==
    /\ pc = "data" /\ ~fault /\ flag_shared
    /\ \E k \in 1..Len(datap) :
          /\ syms[datap[k]].name \in {Name_rel, Name_rela}
          /\ syms[datap[k]].size > 0 /\ syms[datap[k]].sect # <<>>
    /\ \E k \in 1..Len(datap) :
          /\ syms[datap[k]].name = Name_gcdata1
          /\ syms[datap[k]].size > 2 * PtrSize /\ syms[datap[k]].sect # <<>>

-----------------------------------------------------------------------------
(* Specification SpecUndef: text f (1) holds one relocation to the symbol u *)
(* (2), which no object defines: its kind is 0 or SXREF, with or without    *)
(* the SSUB bit.  Payloads start all zero.                                  *)

UndefKinds == {0, SXREF, SSUB, SSUB + SXREF}
UndefOffs == {0, 8}
UndefAdds == {5, 261}

InitUndef ==
    /\ thechar \in {"6", "8"}
    /\ isobj = FALSE /\ hostBE = FALSE
    /\ flag_shared = FALSE /\ HEADTYPE = "Hlinux" /\ debug_d = FALSE
    /\ \E ku \in UndefKinds, ty \in {D_ADDR, D_PCREL, D_SIZE}, siz \in {4, 8},
          off \in UndefOffs, add \in UndefAdds, re \in BOOLEAN :
         syms = <<[TextSym(<<102>>, 16) EXCEPT !.r = <<NewReloc(off, siz, ty, 2, add)>>],
                  [NewSym(<<117>>) EXCEPT !.type = ku, !.reachable = re]>>
    /\ textp = <<1>> /\ datap = <<>> /\ segtext = <<>> /\ segdata = <<>>
    /\ pc = "start" /\ hist = NoHist
    /\ NoLogs /\ NoSignal

SpecUndef == InitUndef /\ [][NextLink]_vars

\* kind & SMASK is 0 or SXREF.
Undefined(ty) == ty % (SMASK + 1) = 0 \/ ty % (SMASK + 1) = SXREF

\* The relocations of the symbols reloc walks whose slot is inside the
\* payload and whose target is not defined.
UndefinedRelocs ==
    {ik \in {<<i, k>> : i \in Placed, k \in 1..2} :
        /\ ik[2] <= Len(syms[ik[1]].r)
        /\ LET r == syms[ik[1]].r[ik[2]]
           IN  /\ r.off >= 0 /\ r.off + r.siz <= syms[ik[1]].np
               /\ r.sym # 0 /\ Undefined(syms[r.sym].type)}

(* C13: after reloc, every relocation whose target is non-null and has      *)
(* kind & SMASK equal to 0 or SXREF has been reported as "not defined" and  *)
(* skipped: the bytes of its slot are as they were (zero).                  *)
C13_UndefinedReportedAndSkipped ==
    (pc \in {"relocated", "relocated2"} /\ ~fault) =>
        \A ik \in UndefinedRelocs :
            LET r == syms[ik[1]].r[ik[2]]
            IN  /\ <<"not defined", r.sym>> \in diags
                /\ Slot(syms[ik[1]], r.off, r.siz) = Zeros(r.siz)

-----------------------------------------------------------------------------
(* The frame of relocsym.  Under SpecReloc every payload of an input        *)
(* symbol is all zero until reloc runs, so a byte that is not zero after    *)
(* the first reloc is a byte relocsym wrote.                                *)

\* The input symbols reloc walks.
RelocWalked == {i \in Placed : i <= Len(hist.kinds)}

\* Relocation k of symbol i has its slot inside the payload.
SlotInPayload(i, k) ==
    syms[i].r[k].off >= 0 /\ syms[i].r[k].off + syms[i].r[k].siz <= syms[i].np

\* Byte j (from 0) of symbol i lies in the slot of one of its relocations.
InSomeSlot(i, j) ==
    \E k \in 1..Len(syms[i].r) :
        /\ SlotInPayload(i, k)
        /\ syms[i].r[k].off <= j /\ j < syms[i].r[k].off + syms[i].r[k].siz

(* C14: relocsym(s) writes only inside relocation slots: a relocation whose *)
(* slot is not inside the payload is diagnosed and skipped, and every byte  *)
(* written lies in the slot of a relocation, inside the payload, whatever   *)
(* siz is.                                                                  *)
C14_WritesOnlyInsideSlots ==
    (pc = "relocated" /\ ~fault) =>
        \A i \in RelocWalked :
            /\ \A k \in 1..Len(syms[i].r) :
                  ~SlotInPayload(i, k) => <<"invalid relocation", i>> \in diags
            /\ ~syms[i].oob
            /\ \A j \in 0..(syms[i].maxp - 1) : syms[i].p[j + 1] # 0 => InSomeSlot(i, j)

-----------------------------------------------------------------------------
(* Promotion to .data.rel.ro, under SpecDyn.                                *)

\* The input symbols dodata put on datap.
DynLaidOut == {i \in 1..Len(hist.kinds) : \E n \in 1..Len(datap) : datap[n] = i}

\* Symbol i holds an ADDR relocation to a local target.
HoldsLocalAddr(i) ==
    \E k \in 1..Len(syms[i].r) :
        /\ syms[i].r[k].type = D_ADDR
        /\ syms[i].r[k].sym # 0 /\ Local(syms[i].r[k].sym)

InSection(i, name) == syms[i].sect # <<>> /\ SectOf(syms[i]).name = name

(* C15, as stated: in shared mode (the dynamic relocations being recorded)  *)
(* a symbol of kind DATA that holds an ADDR relocation to a local target is *)
(* marked rel_ro and is placed in .data.rel.ro, not in .data.               *)
C15_RelRoPromotion_Original ==
    (pc = "data" /\ ~fault /\ SharedElf /\ ~debug_d) =>
        \A i \in DynLaidOut :
            (hist.kinds[i] = SDATA /\ HoldsLocalAddr(i)) =>
                /\ syms[i].rel_ro
                /\ InSection(i, Name_datarelro)
                /\ ~InSection(i, Name_data)

(* C15, amended: in shared mode a symbol is marked rel_ro exactly when -d   *)
(* is not given, its kind is below NOPTRDATA, it is .got or of kind TYPE,   *)
(* GOSTRING or RODATA, and it holds an ADDR relocation to a local target;   *)
(* every rel_ro symbol of datap is placed in .data.rel.ro; a DATA symbol is *)
(* never marked and stays in .data; and .data.rel.ro holds only symbols     *)
(* that were marked rel_ro or were already DATARELRO.                       *)
C15_RelRoPromotion ==
    (pc = "data" /\ ~fault /\ SharedElf) =>
        \A i \in DynLaidOut :
            /\ syms[i].rel_ro
                 <=> (/\ ~debug_d
                      /\ hist.kinds[i] < SNOPTRDATA
                      /\ \/ syms[i].name = Name_got
                         \/ hist.kinds[i] \in {STYPE, SGOSTRING, SRODATA}
                      /\ HoldsLocalAddr(i))
            /\ syms[i].rel_ro => InSection(i, Name_datarelro)
            /\ hist.kinds[i] = SDATA => (~syms[i].rel_ro /\ InSection(i, Name_data))
            /\ InSection(i, Name_datarelro)
                 => (syms[i].rel_ro \/ hist.kinds[i] = SDATARELRO)

\* A shared link laid out a RODATA symbol and a DATA symbol, each holding
\* the address of a local symbol: the first went to .data.rel.ro, the
\* second stayed in .data.
C15_Witness ==
    /\ pc = "data" /\ ~fault /\ SharedElf /\ ~debug_d
    /\ hist.kinds[5] = SRODATA /\ HoldsLocalAddr(5)
    /\ syms[5].rel_ro /\ InSection(5, Name_datarelro)
    /\ hist.kinds[6] = SDATA /\ HoldsLocalAddr(6)
    /\ ~syms[6].rel_ro /\ InSection(6, Name_data)

-----------------------------------------------------------------------------
(* Specification SpecPe: a Windows link of text f (1), the local t (2), the *)
(* imports d1 (3) and d2 (4), data x (5) with two relocations and y (6)     *)
(* with one, and .rel (7), empty or holding one address of d1 already.  d2  *)
(* may have got = -2.                                                       *)

PeTargets == {2, 3, 4}
PeGots == {-1, -2}

PeImport(name, got) ==
    [NewSym(name) EXCEPT !.type = SDYNIMPORT, !.reachable = TRUE,
                         !.dynimpname = TRUE, !.plt = -2, !.got = got]

PeRel == {DataSym(Name_rel, SELFROSECT, 0, 0, 0),
          [DataSym(Name_rel, SELFROSECT, 4, 4, 0)
              EXCEPT !.r = <<NewReloc(0, 4, D_ADDR, 3, 0)>>]}

InitPe ==
    /\ thechar \in {"6", "8"}
    /\ flag_shared = FALSE /\ HEADTYPE = "Hwindows"
    /\ debug_d = FALSE /\ isobj = FALSE /\ hostBE = FALSE
    /\ \E tf \in PeTargets, tx1 \in PeTargets, tx2 \in PeTargets, ty \in PeTargets,
          g2 \in PeGots, rel \in PeRel :
         syms = <<[TextSym(<<102>>, 16) EXCEPT !.r = <<NewReloc(4, 4, D_PCREL, tf, 0)>>],
                  DataSym(<<116>>, SDATA, 8, 8, 0),
                  PeImport(<<100, 49>>, -1),
                  PeImport(<<100, 50>>, g2),
                  DynSym(<<120>>, SDATA, <<NewReloc(0, 4, D_ADDR, tx1, 0),
                                           NewReloc(8, 4, D_ADDR, tx2, 4)>>),
                  DynSym(<<121>>, SNOPTRDATA, <<NewReloc(0, 4, D_ADDR, ty, 0)>>),
                  rel>>
    /\ textp = <<1>> /\ datap = <<>> /\ segtext = <<>> /\ segdata = <<>>
    /\ pc = "start" /\ hist = NoHist
    /\ NoLogs /\ NoSignal

SpecPe == InitPe /\ [][NextLink]_vars

\* The .rel symbol.
PeRelSym == CHOOSE i \in 1..Len(syms) : syms[i].name = Name_rel

\* The targets that get a stub: plt == -2 and got != -2 before dynreloc.
PeImports == {t \in 1..Len(syms) : syms[t].plt = -2 /\ syms[t].got # -2}

\* The relocations to t of the symbols dynreloc walks, .rel aside.
PeRefs(t) ==
    {ik \in ({textp[n] : n \in 1..Len(textp)} \cup {datap'[n] : n \in 1..Len(datap')})
               \X (1..2) :
        /\ ik[1] <= Len(syms) /\ ik[1] # PeRelSym
        /\ ik[2] <= Len(syms[ik[1]].r)
        /\ syms[ik[1]].r[ik[2]].sym = t}

\* The 8 bytes of a stub as dynreloc leaves them: the abs32 slot is zero.
PeStubBytes ==
    IF thechar = "8" THEN <<255, 37, 0, 0, 0, 0, 144, 144>>
    ELSE <<255, 36, 37, 0, 0, 0, 0, 144>>

\* The relocation a stub at offset plt carries for t.
PeStubReloc(t, plt) ==
    NewReloc(plt + (IF thechar = "8" THEN 2 ELSE 3), 4, D_ADDR, t, 0)

\* The relocations appended to .rel by the step.
PeAppended ==
    {n \in 1..Len(syms'[PeRelSym].r) : n > Len(syms[PeRelSym].r)}

(* C16: on Windows, after dynreloc has walked textp and datap, every import *)
(* target t (plt == -2, got != -2) referenced by n >= 1 relocations has     *)
(* exactly one stub in .rel whatever n is, t.plt is the stub's offset in    *)
(* .rel, and each of the n relocations targets .rel with addend t.plt; the  *)
(* stub is 8 bytes (FF 25 abs32 90 90 on 386, FF 24 25 abs32 90 on amd64)   *)
(* with one ADDR relocation to t in its abs32 slot; an unreferenced target  *)
(* gets no stub; the relocations .rel owned are not rewritten.              *)
C16_PeStubs ==
    [][(pc = "typed" /\ pc' = "data" /\ HEADTYPE = "Hwindows" /\ ~fault') =>
         LET rel == PeRelSym IN
         /\ \A t \in PeImports :
              IF PeRefs(t) = {}
              THEN /\ syms'[t].plt = -2
                   /\ \A n \in PeAppended : syms'[rel].r[n].sym # t
              ELSE /\ syms'[t].plt >= syms[rel].size
                   /\ syms'[t].plt + 8 <= syms'[rel].size
                   /\ Slot(syms'[rel], syms'[t].plt, 8) = PeStubBytes
                   /\ Cardinality({n \in PeAppended : syms'[rel].r[n].sym = t}) = 1
                   /\ \E n \in PeAppended :
                         syms'[rel].r[n] = PeStubReloc(t, syms'[t].plt)
                   /\ \A ik \in PeRefs(t) :
                         syms'[ik[1]].r[ik[2]] =
                            [syms[ik[1]].r[ik[2]] EXCEPT !.sym = rel,
                                                        !.add = syms'[t].plt]
         /\ syms'[rel].size
              = syms[rel].size + 8 * Cardinality({t \in PeImports : PeRefs(t) # {}})
         /\ \A n \in 1..Len(syms[rel].r) : syms'[rel].r[n] = syms[rel].r[n]]_vars

\* dodata has run on a Windows link in which .rel held an address already,
\* d1 was referenced three times and d2 once: two stubs, at offsets 4 and 12
\* of .rel, and four relocations redirected to them.
C16_Witness ==
    /\ pc = "data" /\ ~fault /\ HEADTYPE = "Hwindows"
    /\ Len(syms) >= 7 /\ syms[7].name = Name_rel /\ syms[7].size = 20
    /\ {syms[3].plt, syms[4].plt} = {4, 12}
    /\ syms[7].r[1] = NewReloc(0, 4, D_ADDR, 3, 0)
    /\ Cardinality({ik \in {1, 5, 6} \X {1, 2} :
                       /\ ik[2] <= Len(syms[ik[1]].r)
                       /\ syms[ik[1]].r[ik[2]].sym = 7
                       /\ syms[ik[1]].r[ik[2]].add = syms[3].plt}) = 3
    /\ syms[5].r[2].sym = 7 /\ syms[5].r[2].add = syms[4].plt

-----------------------------------------------------------------------------
(* Block emitter: blk() streams the symbols of a list that lie in          *)
(* [addr, addr+size) to the output through cput; codeblk and datblk call   *)
(* it on textp and datap.  The listing printed under debug['a'] goes to    *)
(* bso and not to the output, and is left out.                             *)

\* First loop of blk: position in the list of the first symbol that is not
\* a sub-symbol and lies at or above addr (Len(list)+1 when there is none).
RECURSIVE blk_first(_, _, _, _)
blk_first(S, list, i, addr) ==
    IF i > Len(list) THEN i
    ELSE IF ~IsSub(S[list[i]].type) /\ S[list[i]].value >= addr THEN i
    ELSE blk_first(S, list, i + 1, addr)

\* Mutant of blk_sym: the gap in front of the symbol is not filled.
blk_sym_nogap(sym, addr) ==
    SubSeq(sym.p, 1, sym.np) \o Zeros(sym.size - sym.np)

\* The bytes written for one symbol reached at addr <= sym.value: zeros up
\* to its value, its payload, zeros up to value+size.
blk_sym(sym, addr) ==
    Zeros(sym.value - addr) \o SubSeq(sym.p, 1, sym.np) \o Zeros(sym.size - sym.np)

\* The address after the symbol's bytes: the payload always advances it by
\* np, the tail loop only up to value+size.
blk_after(sym) ==
    sym.value + (IF sym.np > sym.size THEN sym.np ELSE sym.size)

\* Second loop of blk followed by the final fill.  exit: errorexit() was
\* called after a phase error.
RECURSIVE blk_walk(_, _, _, _, _, _)
blk_walk(S, list, i, addr, eaddr, out) ==
    IF i > Len(list) THEN [out |-> out \o Zeros(eaddr - addr), exit |-> FALSE]
    ELSE IF IsSub(S[list[i]].type) THEN blk_walk(S, list, i + 1, addr, eaddr, out)
    ELSE IF S[list[i]].value >= eaddr
         THEN [out |-> out \o Zeros(eaddr - addr), exit |-> FALSE]
    ELSE IF S[list[i]].value < addr THEN [out |-> out, exit |-> TRUE]
    ELSE IF blk_after(S[list[i]]) # S[list[i]].value + S[list[i]].size
         THEN [out |-> out \o blk_sym(S[list[i]], addr), exit |-> TRUE]
    ELSE blk_walk(S, list, i + 1, blk_after(S[list[i]]), eaddr,
                  out \o blk_sym(S[list[i]], addr))

blk(S, list, addr, size) ==
    blk_walk(S, list, blk_first(S, list, 1, addr), addr, addr + size, <<>>)

-----------------------------------------------------------------------------
(* Specification SpecBlk: codeblk and datblk called once on a list of up   *)
(* to MaxBlkSyms symbols laid out in increasing address order from         *)
(* BlkBase, each after a gap drawn from BlkGaps, with a size and a payload *)
(* length drawn from BlkShapes (a payload longer than the size is what     *)
(* dodata reports as "initialize bounds" and lets through), and with or    *)
(* without the SSUB bit.  The symbols are text symbols on textp or data    *)
(* symbols on datap.  Payload byte j of symbol i is 16*i + j.              *)

MaxBlkSyms == 2
BlkBase == 1
BlkGaps == {0, 1}
BlkShapes == {<<0, 0>>, <<2, 0>>, <<2, 1>>, <<2, 2>>, <<2, 3>>}
BlkSubs == {0, SSUB}
BlkAddrs == 0..3
BlkSizes == {0, 1, 3, 4}

RECURSIVE BlkValue(_, _, _)
BlkValue(gap, shape, i) ==
    IF i = 1 THEN BlkBase + gap[1]
    ELSE BlkValue(gap, shape, i - 1) + shape[i - 1][1] + gap[i]

BlkSym(i, ty, shape, value) ==
    [NewSym(<<96 + i>>) EXCEPT !.type = ty, !.reachable = TRUE,
                               !.size = shape[1], !.np = shape[2],
                               !.maxp = shape[2],
                               !.p = [j \in 1..shape[2] |-> 16 * i + j],
                               !.value = value]

InitBlk ==
    /\ \E text \in BOOLEAN :
         /\ \E n \in 0..MaxBlkSyms :
              \E gap \in [1..n -> BlkGaps], shape \in [1..n -> BlkShapes],
                 sub \in [1..n -> BlkSubs] :
                 syms = [i \in 1..n |->
                           BlkSym(i, (IF text THEN STEXT ELSE SDATA) + sub[i],
                                  shape[i], BlkValue(gap, shape, i))]
         /\ textp = (IF text THEN [i \in 1..Len(syms) |-> i] ELSE <<>>)
         /\ datap = (IF text THEN <<>> ELSE [i \in 1..Len(syms) |-> i])
    /\ pc = "laid"
    /\ hist = [fn |-> "none", addr |-> 0, size |-> 0, out |-> <<>>]
    /\ thechar = "6" /\ hostBE = FALSE
    /\ segtext = <<>> /\ segdata = <<>>
    /\ NoLogs /\ NoSignal /\ DefaultFlags

BlkCall(fn, list) ==
    \E addr \in BlkAddrs, size \in BlkSizes :
      \E b \in {blk(syms, list, addr, size)} :
        /\ pc = "laid"
        /\ hist' = [fn |-> fn, addr |-> addr, size |-> size, out |-> b.out]
        /\ pc' = (IF b.exit THEN "errorexit" ELSE "emitted")
        /\ diags' = (IF b.exit THEN diags \cup {"phase error"} ELSE diags)
        /\ UNCHANGED <<syms, textp, datap, segtext, segdata, thechar, flag_shared,
                       HEADTYPE, isobj, debug_d, hostBE, dynlog, fault, sigframe>>

Codeblk == BlkCall("codeblk", textp)

Datblk == BlkCall("datblk", datap)

NextBlk == Codeblk \/ Datblk

SpecBlk == InitBlk /\ [][NextBlk]_vars

\* The list blk walked.
BlkList == IF hist.fn = "codeblk" THEN textp ELSE datap

\* The list is ordered by value, no two of its symbols overlap, and no
\* payload is longer than its symbol.
BlkOrdered ==
    /\ \A i \in 1..Len(BlkList) : syms[BlkList[i]].np <= syms[BlkList[i]].size
    /\ \A i \in 1..Len(BlkList) : \A j \in 1..Len(BlkList) :
         i < j => syms[BlkList[i]].value + syms[BlkList[i]].size
                    <= syms[BlkList[j]].value

\* The byte the image holds at address a: the payload byte of the symbol
\* (not a sub-symbol) whose payload covers a, zero where there is none.
BlkImage(a) ==
    IF \E i \in 1..Len(BlkList) :
          /\ ~IsSub(syms[BlkList[i]].type)
          /\ syms[BlkList[i]].value <= a
          /\ a < syms[BlkList[i]].value + syms[BlkList[i]].np
    THEN LET i == CHOOSE i \in 1..Len(BlkList) :
                     /\ ~IsSub(syms[BlkList[i]].type)
                     /\ syms[BlkList[i]].value <= a
                     /\ a < syms[BlkList[i]].value + syms[BlkList[i]].np
         IN  syms[BlkList[i]].p[a - syms[BlkList[i]].value + 1]
    ELSE 0

BlkExact ==
    /\ pc = "emitted"
    /\ Len(hist.out) = hist.size
    /\ \A i \in 1..hist.size : hist.out[i] = BlkImage(hist.addr + i - 1)

\* Address b falls strictly inside a symbol that is not a sub-symbol.
BlkStraddles(b) ==
    \E i \in 1..Len(BlkList) :
        /\ ~IsSub(syms[BlkList[i]].type)
        /\ syms[BlkList[i]].value < b
        /\ b < syms[BlkList[i]].value + syms[BlkList[i]].size

\* C17 as stated: on every ordered, non-overlapping list with payloads no
\* longer than their symbols, blk(start, addr, size) writes exactly size
\* bytes and byte i is the image byte at addr+i.
C17_BlkExact_Original ==
    (pc \in {"emitted", "errorexit"} /\ BlkOrdered) => BlkExact

\* C17: the same, for the ranges whose two ends do not fall strictly inside
\* a symbol that is not a sub-symbol; on those blk reports no phase error,
\* writes exactly size bytes, and byte i is the image byte at addr+i.
C17_BlkExact ==
    (pc \in {"emitted", "errorexit"} /\ BlkOrdered
       /\ ~BlkStraddles(hist.addr) /\ ~BlkStraddles(hist.addr + hist.size))
    => BlkExact

\* C17 witness: a range that holds a gap, a whole symbol with a payload
\* shorter than its size, a sub-symbol that is skipped, and room after it.
C17_Witness ==
    /\ pc = "emitted" /\ BlkOrdered
    /\ ~BlkStraddles(hist.addr) /\ ~BlkStraddles(hist.addr + hist.size)
    /\ hist.size = 4 /\ hist.addr = 1
    /\ Len(BlkList) = 2
    /\ ~IsSub(syms[BlkList[1]].type) /\ IsSub(syms[BlkList[2]].type)
    /\ syms[BlkList[1]].value = 2
    /\ syms[BlkList[1]].size = 2 /\ syms[BlkList[1]].np = 1
    /\ syms[BlkList[2]].np = 2
    /\ hist.out = <<0, 17, 0, 0>>

-----------------------------------------------------------------------------
(* Signal handler of the runtime on freebsd/386                            *)
(* (src/pkg/runtime/signal_freebsd_386.c).  sigframe holds what the kernel *)
(* and the runtime hand to runtime.sighandler: sig, the siginfo fields,    *)
(* gp ("nil", "g0" or "g"), flags = runtime.sigtab[sig].flags, the saved   *)
(* registers mc_eip and mc_esp, the words of the interrupted stack, the    *)
(* signal fields of gp, the address of runtime.sigpanic, and what the      *)
(* functions it calls answer: sigsend (the signal was queued), gotraceback *)
(* and cgo (m->lockedg != nil && m->ncgo > 0).  calls lists the runtime    *)
(* functions the handler called, in order.                                 *)

\* Values of os_freebsd.h, signals_freebsd.h and runtime.h.
SIGPROF == 27
SI_USER == 65537
SigNotify == 1
SigKill == 2
SigThrow == 4
SigPanic == 8

\* sizeof(uintptr) on 386.
WordSize == 4

\* t->flags & bit, for a bit that is a power of two.
SigFlag(flags, bit) == (flags \div bit) % 2 = 1

\* Mutant of sighandler_push: the program counter is pushed even when zero.
sighandler_push_always(f) ==
    [f EXCEPT !.stack[f.mc_esp - WordSize] = f.mc_eip,
              !.mc_esp = f.mc_esp - WordSize]

\* if(r->mc_eip != 0) { sp = (uintptr*)r->mc_esp; *--sp = r->mc_eip;
\*                      r->mc_esp = (uintptr)sp; }
sighandler_push(f) ==
    IF f.mc_eip # 0
    THEN [f EXCEPT !.stack[f.mc_esp - WordSize] = f.mc_eip,
                   !.mc_esp = f.mc_esp - WordSize]
    ELSE f

\* The SigPanic branch for a user goroutine: the signal is passed out of
\* band in gp and the context is made to look like a call to sigpanic.
sighandler_panic(f) ==
    [sighandler_push([f EXCEPT !.g = [sig |-> f.sig, sigcode0 |-> f.si_code,
                                      sigcode1 |-> f.si_addr, sigpc |-> f.mc_eip]])
       EXCEPT !.mc_eip = f.sigpanic, !.status = "returned"]

\* Throw: startpanic, the report, the traceback of gp (of m->lockedg when
\* the signal arrived on g0 during a cgo call), exit(2).
sighandler_Throw(f) ==
    [f EXCEPT !.calls = f.calls \o <<"startpanic", "printf">>
                  \o (IF f.gotraceback
                      THEN << (IF f.cgo /\ f.gp = "g0" THEN "traceback lockedg"
                               ELSE "traceback gp"),
                              "tracebackothers", "dumpregs" >>
                      ELSE <<>>)
                  \o <<"exit 2">>,
              !.status = "exited"]

\* The rest of the handler, for a signal that is not turned into a panic.
sighandler_other(f) ==
    IF f.si_code = SI_USER \/ SigFlag(f.flags, SigNotify)
    THEN IF f.sigsend
         THEN [f EXCEPT !.calls = <<"sigsend">>, !.status = "returned"]
         ELSE IF SigFlag(f.flags, SigKill)
         THEN [f EXCEPT !.calls = <<"sigsend", "exit 2">>, !.status = "exited"]
         ELSE IF ~SigFlag(f.flags, SigThrow)
         THEN [f EXCEPT !.calls = <<"sigsend">>, !.status = "returned"]
         ELSE sighandler_Throw([f EXCEPT !.calls = <<"sigsend">>])
    ELSE IF SigFlag(f.flags, SigKill)
    THEN [f EXCEPT !.calls = <<"exit 2">>, !.status = "exited"]
    ELSE IF ~SigFlag(f.flags, SigThrow)
    THEN [f EXCEPT !.status = "returned"]
    ELSE sighandler_Throw(f)

sighandler(f) ==
    IF f.sig = SIGPROF
    THEN [f EXCEPT !.calls = <<"sigprof">>, !.status = "returned"]
    ELSE IF f.si_code # SI_USER /\ SigFlag(f.flags, SigPanic)
    THEN IF f.gp = "nil" \/ f.gp = "g0"
         THEN sighandler_Throw(f)
         ELSE sighandler_panic(f)
    ELSE sighandler_other(f)

-----------------------------------------------------------------------------
(* Specification SpecSig: one signal delivered and handled.  The signal is *)
(* SIGPROF or another one, its table entry carries any set of the four     *)
(* flags the handler reads, si_code is SI_USER or a fault code, the saved  *)
(* program counter is zero (a call of a nil func) or not, and the saved    *)
(* stack pointer leaves room for a word below it.                          *)

SigNumbers == {11, SIGPROF}
SigFlagSets == 0..(SigNotify + SigKill + SigThrow + SigPanic)
SigCodes == {1, SI_USER}
SigAddrs == {0, 64}
SigGs == {"nil", "g0", "g"}
SigPcs == {0, 4096}
SigSps == {8, 12}
SigStackAddrs == {0, 4, 8, 12}
SigpanicPcs == {8192}

InitSig ==
    /\ \E sig \in SigNumbers, flags \in SigFlagSets, code \in SigCodes,
          addr \in SigAddrs, gp \in SigGs, eip \in SigPcs, esp \in SigSps,
          sent \in BOOLEAN, tb \in BOOLEAN, cgo \in BOOLEAN,
          sigpanic \in SigpanicPcs :
         sigframe = [sig |-> sig, flags |-> flags, si_code |-> code,
                     si_addr |-> addr, gp |-> gp, mc_eip |-> eip, mc_esp |-> esp,
                     stack |-> [a \in SigStackAddrs |-> 100 + a],
                     g |-> [sig |-> 0, sigcode0 |-> 0, sigcode1 |-> 0, sigpc |-> 0],
                     sigpanic |-> sigpanic, sigsend |-> sent, gotraceback |-> tb,
                     cgo |-> cgo, calls |-> <<>>, status |-> "delivered"]
    /\ hist = <<>>
    /\ pc = "signal"
    /\ syms = <<>>
    /\ thechar = "8" /\ hostBE = FALSE
    /\ NoLists /\ NoLogs /\ DefaultFlags

Sighandler ==
    /\ pc = "signal"
    /\ sigframe' = sighandler(sigframe)
    /\ hist' = sigframe
    /\ pc' = sigframe'.status
    /\ UNCHANGED <<syms, textp, datap, segtext, segdata, thechar, flag_shared,
                   HEADTYPE, isobj, debug_d, hostBE, dynlog, diags, fault>>

NextSig == Sighandler

SpecSig == InitSig /\ [][NextSig]_vars

\* The handler has run on a signal that its table turns into a panic.
SigPanicCase ==
    /\ pc \in {"returned", "exited"}
    /\ hist.sig # SIGPROF
    /\ SigFlag(hist.flags, SigPanic)
    /\ hist.si_code # SI_USER

\* The signal was handed to gp and the context redirected to sigpanic.
SigHandedToG ==
    /\ pc = "returned"
    /\ sigframe.g = [sig |-> hist.sig, sigcode0 |-> hist.si_code,
                     sigcode1 |-> hist.si_addr, sigpc |-> hist.mc_eip]
    /\ sigframe.mc_eip = hist.sigpanic
    /\ sigframe.calls = <<>>

\* The old program counter was pushed: one word below the old stack
\* pointer, nothing else on the stack touched.
SigPushed ==
    /\ sigframe.mc_esp = hist.mc_esp - WordSize
    /\ sigframe.stack[sigframe.mc_esp] = hist.mc_eip
    /\ \A a \in SigStackAddrs : a # sigframe.mc_esp => sigframe.stack[a] = hist.stack[a]

SigNotPushed ==
    /\ sigframe.mc_esp = hist.mc_esp
    /\ sigframe.stack = hist.stack

\* The throw path was taken: startpanic first, exit(2) last, and neither
\* gp nor the context changed.
SigThrown ==
    /\ pc = "exited"
    /\ Len(sigframe.calls) >= 2
    /\ sigframe.calls[1] = "startpanic"
    /\ sigframe.calls[Len(sigframe.calls)] = "exit 2"
    /\ \A k \in 1..Len(sigframe.calls) : sigframe.calls[k] # "sigsend"
    /\ sigframe.g = hist.g
    /\ sigframe.mc_eip = hist.mc_eip /\ SigNotPushed

\* C18: for a signal other than SIGPROF with the SigPanic flag and
\* si_code # SI_USER: when gp is a user goroutine the handler stores sig,
\* si_code, si_addr and the old eip in gp, sets eip to sigpanic and returns
\* without calling sigsend, exit or the throw path, and the old eip is
\* pushed (esp one word lower, old eip on top) exactly when it is nonzero;
\* when gp is nil or g0 the handler takes the throw path and exits with 2.
C18_SigPanic ==
    SigPanicCase =>
        IF hist.gp = "g"
        THEN /\ SigHandedToG
             /\ (hist.mc_eip # 0 => SigPushed)
             /\ (hist.mc_eip = 0 => SigNotPushed)
        ELSE SigThrown

\* C18 witness: a fault at a nonzero eip on a user goroutine has been
\* handled and the eip pushed.
C18_Witness ==
    /\ SigPanicCase
    /\ hist.gp = "g" /\ hist.mc_eip = 4096 /\ hist.mc_esp = 12
    /\ sigframe.mc_esp = 8 /\ sigframe.stack[8] = 4096
    /\ sigframe.mc_eip = 8192
    /\ sigframe.g.sigpc = 4096

====
